---------------------------- MODULE Spec2Model ----------------------------
(***************************************************************************)
(* Bounded-context memory and agent-lifecycle manager.                     *)
(*                                                                         *)
(* Three parts of the repository are modelled:                             *)
(*   - the Fact Store and its reconciler / remediation pass                *)
(*     (core/advanced_conversation_memory.py),                             *)
(*   - the bridge of core/niya_bridge_with_memory.py (handle_message),     *)
(*   - the bridge of core/niya_bridge_memory_optimized.py (chat).          *)
(*                                                                         *)
(* Confidences are fixed-point numbers: the integer n stands for n/Scale.  *)
(* Times are whole seconds.  Texts are strings.                            *)
(***************************************************************************)
EXTENDS Integers, Sequences, FiniteSets, TLC

VARIABLES
    now,                    \* time.time(), in whole seconds
    user_facts,             \* table user_facts: key -> row
    lastOp,                 \* the last operation applied and its arguments
    agent_id,               \* self.agent_id (NoAgent is None)
    message_count,          \* self.message_count
    consecutive_failures,   \* self.consecutive_failures
    last_reset_time,        \* self.last_reset_time
    current_session_id,     \* self.current_session_id
    letta_agents,           \* instances alive on the external agent service
    created,                \* number of instances the service has created
    conversation_sessions,  \* table conversation_sessions: id -> row
    messages,               \* table messages, in insertion (rowid) order
    memory_health,          \* table memory_health, in insertion order
    relationship_insights,  \* table relationship_insights, in insertion order
    pc,                     \* per request thread: position in the handler
    local,                  \* per request thread: the handler's locals
    late,                   \* worker threads abandoned after a timeout
    hist                    \* observations of the run (turns, replacements)

factVars == <<user_facts>>
bridgeVars == <<agent_id, message_count, consecutive_failures, last_reset_time,
                current_session_id, letta_agents, created, pc, local, late, hist>>
storeVars == <<conversation_sessions, messages, memory_health,
               relationship_insights>>
vars == <<now, user_facts, lastOp, agent_id, message_count, consecutive_failures,
          last_reset_time, current_session_id, letta_agents, created,
          conversation_sessions, messages, memory_health, relationship_insights,
          pc, local, late, hist>>

-----------------------------------------------------------------------------
(* Bounds of the model *)

\* how many times a confidence may be halved exactly (fixes the fixed-point grid)
HalvingDepth == 2
\* cap on confirmation_count reached by reconcile calls
MaxConfirm == 3
\* cap on the length of one fact's contradiction log
MaxLog == 1
\* the Fact Store's clock stops here
MaxFactTime == 60

-----------------------------------------------------------------------------
(* Fixed-point confidences *)

Scale == 20 * (2 ^ HalvingDepth)

\* n hundredths as a fixed-point confidence (n a multiple of 5)
Pct(n) == (n * Scale) \div 100

Min(a, b) == IF a <= b THEN a ELSE b
Max(a, b) == IF a >= b THEN a ELSE b

-----------------------------------------------------------------------------
(* Text helpers: Python's str.lower() and the `in` substring test *)

UpperLetters == "ABCDEFGHIJKLMNOPQRSTUVWXYZ"
LowerLetters == "abcdefghijklmnopqrstuvwxyz"

LowerChar(c) ==
    IF \E i \in 1..26 : SubSeq(UpperLetters, i, i) = c
    THEN LET i == CHOOSE j \in 1..26 : SubSeq(UpperLetters, j, j) = c
         IN SubSeq(LowerLetters, i, i)
    ELSE c

RECURSIVE Lower(_)
\* str.lower(), character by character (the text is halved to keep the
\* recursion shallow)
Lower(s) ==
    IF Len(s) = 0 THEN ""
    ELSE IF Len(s) = 1 THEN LowerChar(s)
    ELSE Lower(SubSeq(s, 1, Len(s) \div 2))
            \o Lower(SubSeq(s, (Len(s) \div 2) + 1, Len(s)))

\* word in text
Contains(text, word) ==
    \E i \in 1..(Len(text) - Len(word) + 1) :
        SubSeq(text, i, i + Len(word) - 1) = word

AnyIn(words, text) == \E w \in words : Contains(text, w)

-----------------------------------------------------------------------------
(* Reconciler: AdvancedConversationMemory.store_user_fact_with_confidence *)

contradictory_pairs ==
    << <<{"love", "like"}, {"hate", "dislike"}>>,
       <<{"happy", "joy"}, {"sad", "depressed"}>>,
       <<{"single"}, {"married", "relationship"}>> >>

facts_contradict(old_value, new_value) ==
    LET old_lower == Lower(old_value)
        new_lower == Lower(new_value)
    IN \E n \in 1..Len(contradictory_pairs) :
          LET positive == contradictory_pairs[n][1]
              negative == contradictory_pairs[n][2]
              old_positive == AnyIn(positive, old_lower)
              old_negative == AnyIn(negative, old_lower)
              new_positive == AnyIn(positive, new_lower)
              new_negative == AnyIn(negative, new_lower)
          IN (old_positive /\ new_negative) \/ (old_negative /\ new_positive)

\* the margin of "confidence > old_confidence + 0.2"
ContradictionMargin == Pct(20)
\* the bonus of "(old_confidence + confidence) / 2 + 0.1"
ReinforceBonus == Pct(10)

\* variant: the margin is reached, not exceeded
Overrides_AtMargin(confidence, old_confidence) ==
    confidence >= old_confidence + ContradictionMargin

\* does the candidate override a contradicted fact?
Overrides(confidence, old_confidence) ==
    confidence > old_confidence + ContradictionMargin

\* variant: the mean plus the bonus, without the cap
combined_confidence_Uncapped(old_confidence, confidence) ==
    ((old_confidence + confidence) \div 2) + ReinforceBonus

\* min((old_confidence + confidence) / 2 + 0.1, 1.0)
combined_confidence(old_confidence, confidence) ==
    Min(((old_confidence + confidence) \div 2) + ReinforceBonus, Scale)

\* the values reconcile is called with in the model
LongValue ==
    "playing fingerstyle acoustic guitar arrangements of old film songs on the terrace each and every evening with the neighbours and their children until the street lamps go out and the tea is cold again"
FactValues == {"guitar", "Love guitar", "hate guitar", "alex", "pilot", LongValue}

\* facts_contradict, tabulated once over the model's values
ContradictingValues ==
    UNION {IF facts_contradict(p[1], p[2]) THEN {p} ELSE {} :
                p \in FactValues \X FactValues}

\* the branch store_user_fact_with_confidence takes
FactOutcome(facts, key, value, confidence) ==
    IF key \notin DOMAIN facts THEN "created"
    ELSE IF <<facts[key].value, value>> \in ContradictingValues
         THEN IF Overrides(confidence, facts[key].confidence)
              THEN "superseded" ELSE "contradiction-logged"
         ELSE "reinforced"

NewFactRow(value, confidence, priority, t) ==
    [value |-> value, confidence |-> confidence, priority |-> priority,
     first_mentioned |-> t, last_confirmed |-> t,
     confirmation_count |-> 1, contradictions |-> <<>>]

\* variant: the reinforcement stores the candidate's value with the confidence
StoreFact_ReinforceOverwrites(facts, key, value, confidence, priority, t) ==
    LET outcome == FactOutcome(facts, key, value, confidence) IN
    IF outcome = "created"
    THEN [k \in DOMAIN facts \cup {key} |->
            IF k = key THEN NewFactRow(value, confidence, priority, t) ELSE facts[k]]
    ELSE IF outcome = "superseded"
    THEN [facts EXCEPT ![key].value = value,
                       ![key].confidence = confidence,
                       ![key].last_confirmed = t,
                       ![key].confirmation_count = @ + 1]
    ELSE IF outcome = "contradiction-logged"
    THEN [facts EXCEPT ![key].contradictions =
                Append(@, [value |-> value, confidence |-> confidence, timestamp |-> t])]
    ELSE [facts EXCEPT ![key].value = value,
                       ![key].confidence = combined_confidence(@, confidence),
                       ![key].last_confirmed = t,
                       ![key].confirmation_count = @ + 1]

\* variant: a logged contradiction counts as a confirmation too
StoreFact_CountsEveryCall(facts, key, value, confidence, priority, t) ==
    LET outcome == FactOutcome(facts, key, value, confidence) IN
    IF outcome = "created"
    THEN [k \in DOMAIN facts \cup {key} |->
            IF k = key THEN NewFactRow(value, confidence, priority, t) ELSE facts[k]]
    ELSE IF outcome = "superseded"
    THEN [facts EXCEPT ![key].value = value,
                       ![key].confidence = confidence,
                       ![key].last_confirmed = t,
                       ![key].confirmation_count = @ + 1]
    ELSE IF outcome = "contradiction-logged"
    THEN [facts EXCEPT ![key].contradictions =
                Append(@, [value |-> value, confidence |-> confidence, timestamp |-> t]),
                       ![key].confirmation_count = @ + 1]
    ELSE [facts EXCEPT ![key].confidence = combined_confidence(@, confidence),
                       ![key].last_confirmed = t,
                       ![key].confirmation_count = @ + 1]

\* the table after store_user_fact_with_confidence(key, value, confidence, priority)
StoreFact(facts, key, value, confidence, priority, t) ==
    LET outcome == FactOutcome(facts, key, value, confidence) IN
    IF outcome = "created"
    THEN [k \in DOMAIN facts \cup {key} |->
            IF k = key THEN NewFactRow(value, confidence, priority, t) ELSE facts[k]]
    ELSE IF outcome = "superseded"
    THEN [facts EXCEPT ![key].value = value,
                       ![key].confidence = confidence,
                       ![key].last_confirmed = t,
                       ![key].confirmation_count = @ + 1]
    ELSE IF outcome = "contradiction-logged"
    THEN [facts EXCEPT ![key].contradictions =
                Append(@, [value |-> value, confidence |-> confidence, timestamp |-> t])]
    ELSE [facts EXCEPT ![key].confidence = combined_confidence(@, confidence),
                       ![key].last_confirmed = t,
                       ![key].confirmation_count = @ + 1]


-----------------------------------------------------------------------------
(* Remediation pass: trigger_memory_optimization and its three steps *)

\* variant: the sweep looks at the confidence alone
IsUncertain_AnyCount(row) == row.confidence < Pct(30)

\* DELETE ... WHERE session_id = ? AND confidence < 0.3 AND confirmation_count = 1
IsUncertain(row) == row.confidence < Pct(30) /\ row.confirmation_count = 1

cleanup_uncertain_memories(facts, session_id) ==
    LET kept == {k \in DOMAIN facts : ~(k[1] = session_id /\ IsUncertain(facts[k]))}
    IN [k \in kept |-> facts[k]]

\* consolidate_similar_memories is `pass`
consolidate_similar_memories(facts, session_id) == facts

\* SET confidence = MIN(confidence + 0.1, 1.0)
BoostedConfidence(confidence) == Min(confidence + Pct(10), Scale)

\* UPDATE ... WHERE session_id = ? AND confirmation_count > 2
IsValidated(row) == row.confirmation_count > 2

reinforce_validated_memories(facts, session_id) ==
    [k \in DOMAIN facts |->
        IF k[1] = session_id /\ IsValidated(facts[k])
        THEN [facts[k] EXCEPT !.confidence = BoostedConfidence(@)]
        ELSE facts[k]]

trigger_memory_optimization(facts, session_id) ==
    reinforce_validated_memories(
        consolidate_similar_memories(
            cleanup_uncertain_memories(facts, session_id), session_id), session_id)

-----------------------------------------------------------------------------
(* The Fact Store driven through its API *)

SessionIds == {"s1", "s2"}
PreferenceKey == <<"s1", "preference", "preference">>
FactKeys == {PreferenceKey}

\* the candidates reconcile is called with, per key: <<value, confidence, priority>>
Candidates(key) ==
    {"guitar", "Love guitar", "hate guitar"} \X {Pct(0), Pct(70), Pct(100)} \X {"high"}

NoOp == [op |-> "none", key |-> <<>>, session |-> "", outcome |-> ""]

\* the candidate can be reconciled within the bounds of the model
WithinFactBounds(facts, key, value, confidence) ==
    LET outcome == FactOutcome(facts, key, value, confidence) IN
    /\ outcome \in {"reinforced", "superseded"} =>
            facts[key].confirmation_count < MaxConfirm
    /\ outcome = "contradiction-logged" => Len(facts[key].contradictions) < MaxLog
    \* the mean of the two confidences is a point of the grid
    /\ outcome = "reinforced" => (facts[key].confidence + confidence) % 2 = 0

Reconcile(key, value, confidence, priority) ==
    /\ WithinFactBounds(user_facts, key, value, confidence)
    /\ user_facts' = StoreFact(user_facts, key, value, confidence, priority, now)
    /\ lastOp' = [op |-> "reconcile", key |-> key, session |-> key[1],
                  outcome |-> FactOutcome(user_facts, key, value, confidence),
                  value |-> value]
    /\ UNCHANGED <<now, bridgeVars, storeVars>>

Cleanup(session_id) ==
    /\ user_facts' = cleanup_uncertain_memories(user_facts, session_id)
    /\ lastOp' = [op |-> "cleanup", key |-> <<>>, session |-> session_id, outcome |-> ""]
    /\ UNCHANGED <<now, bridgeVars, storeVars>>

Reinforce(session_id) ==
    /\ user_facts' = reinforce_validated_memories(user_facts, session_id)
    /\ lastOp' = [op |-> "reinforce", key |-> <<>>, session |-> session_id, outcome |-> ""]
    /\ UNCHANGED <<now, bridgeVars, storeVars>>

Remediate(session_id) ==
    /\ user_facts' = trigger_memory_optimization(user_facts, session_id)
    /\ lastOp' = [op |-> "remediate", key |-> <<>>, session |-> session_id, outcome |-> ""]
    /\ UNCHANGED <<now, bridgeVars, storeVars>>

\* a minute passes between two calls of the Fact Store's API
FactTick ==
    /\ now + 60 <= MaxFactTime
    /\ now' = now + 60
    /\ lastOp' = [op |-> "tick", key |-> <<>>, session |-> "", outcome |-> ""]
    /\ UNCHANGED <<factVars, bridgeVars, storeVars>>

InitFacts ==
    /\ now = 0
    /\ user_facts = <<>>
    /\ lastOp = NoOp
    /\ agent_id = 0 /\ message_count = 0 /\ consecutive_failures = 0
    /\ last_reset_time = 0 /\ current_session_id = "s1"
    /\ letta_agents = {} /\ created = 0
    /\ conversation_sessions = <<>> /\ messages = <<>> /\ memory_health = <<>>
    /\ relationship_insights = <<>>
    /\ pc = <<>> /\ local = <<>> /\ late = {} /\ hist = <<>>

NextFacts ==
    \/ \E key \in FactKeys : \E c \in Candidates(key) :
            Reconcile(key, c[1], c[2], c[3])
    \/ \E s \in SessionIds : Cleanup(s)
    \/ \E s \in SessionIds : Reinforce(s)
    \/ \E s \in SessionIds : Remediate(s)
    \/ FactTick

SpecFacts == InitFacts /\ [][NextFacts]_vars


-----------------------------------------------------------------------------
(* Claims about the Fact Store, checked under SpecFacts *)

\* the step is a reconcile of `key` that took the branch `outcome`
Reconciled(key, outcome) ==
    lastOp'.op = "reconcile" /\ lastOp'.key = key /\ lastOp'.outcome = outcome

\* C2: a reconcile that takes the reinforcement branch never leaves the stored
\* confidence lower than it found it, whatever the candidate's confidence.
C2_ReinforcementNeverLowersConfidence ==
    [][\A key \in FactKeys :
          Reconciled(key, "reinforced") =>
              user_facts'[key].confidence >= user_facts[key].confidence]_vars

\* C3: reconciling a contradictory candidate whose confidence is at most the
\* stored confidence plus 0.2 keeps the stored value and confidence and appends
\* exactly one entry (the rejected value, its confidence, the time) to the log.
C3_WeakContradictionIsOnlyLogged ==
    [][\A key \in FactKeys : \A c \in Candidates(key) :
          ( /\ key \in DOMAIN user_facts
            /\ <<user_facts[key].value, c[1]>> \in ContradictingValues
            /\ c[2] <= user_facts[key].confidence + Pct(20)
            /\ Reconcile(key, c[1], c[2], c[3]) )
          => ( /\ key \in DOMAIN user_facts'
               /\ user_facts'[key].value = user_facts[key].value
               /\ user_facts'[key].confidence = user_facts[key].confidence
               /\ user_facts'[key].confirmation_count = user_facts[key].confirmation_count
               /\ user_facts'[key].contradictions =
                      Append(user_facts[key].contradictions,
                             [value |-> c[1], confidence |-> c[2], timestamp |-> now]) )]_vars

\* a contradiction was just logged whose confidence is exactly 0.2 above the stored one
C3_Witness ==
    /\ lastOp.op = "reconcile" /\ lastOp.outcome = "contradiction-logged"
    /\ \E key \in DOMAIN user_facts :
          /\ Len(user_facts[key].contradictions) = 1
          /\ user_facts[key].contradictions[1].confidence =
                 user_facts[key].confidence + Pct(20)
          /\ user_facts[key].contradictions[1].value # user_facts[key].value

\* C4: a step removes a fact only in the cleanup sweep, and only a fact of
\* confidence below 0.3 that was confirmed once; a fact with confirmation
\* count above 1 is never removed.
C4_CleanupSparesConfirmedFacts ==
    [][\A key \in DOMAIN user_facts :
          key \notin DOMAIN user_facts' =>
              /\ lastOp'.op \in {"cleanup", "remediate"}
              /\ lastOp'.session = key[1]
              /\ user_facts[key].confidence < Pct(30)
              /\ user_facts[key].confirmation_count = 1]_vars

\* the sweep has run and left a fact of confidence below 0.3 confirmed twice
C4_Witness ==
    /\ lastOp.op \in {"cleanup", "remediate"}
    /\ \E key \in DOMAIN user_facts :
          /\ lastOp.session = key[1]
          /\ user_facts[key].confidence < Pct(30)
          /\ user_facts[key].confirmation_count > 1

-----------------------------------------------------------------------------
(* The bridge of core/niya_bridge_with_memory.py: shared definitions *)

\* turns one sequential run of the bridge may take
MaxTurns == 10
\* turns one run of the bridge may take when requests overlap
MaxConcTurns == 3
\* failures of the agent service or of the store, and manual resets, in one run
MaxFaults == 2
\* the bridge's clock stops here
MaxTime == 121

\* self.agent_id = None
NoAgent == 0
\* session_id = None
NoSession == -1

max_messages_before_reset == 4
max_consecutive_failures == 2
\* the age in seconds above which handle_message replaces the instance
MaxAgentAge == 120

\* the main thread and the request threads of the threaded server
Main == 0
Threads == {1, 2}
FirstThread == CHOOSE t \in Threads : \A u \in Threads : t <= u
\* the clock advances by a minute, or by a minute and a second
TickSteps == {60, 61}

\* a request thread's locals: the turn's session and number, the instance the
\* message went to, the kind of message, the deadline waits begun for the
\* turn and whether one of them ran out
NoLocal == [session_id |-> NoSession, dispatched |-> NoAgent, turn |-> 0,
            kind |-> "", waits |-> 0, timed_out |-> FALSE]

\* observations: turns begun, the turns at which the instance was replaced,
\* whether the run has been free of failures so far, the last reply returned,
\* the failures and fact-bearing messages injected, the run's client, the
\* time the current instance was created and the turns dispatched to it, the
\* turns at which should_reset_agent returned True through its health branch,
\* the turns answered without error with the instance that answered each
InitHist == [turn |-> 0, resets |-> {}, clean |-> TRUE, reply |-> "none",
             faults |-> 0, facts |-> 0, client |-> "none",
             consolidated |-> {}, texts |-> <<>>, born |-> 0, served |-> 0,
             by_health |-> {}, answered |-> {},
             context |-> NoSession]

AllIdle == \A t \in Threads : pc[t] = "idle"

\* ConversationMemory.start_session: the id is the current second; inserting an
\* id that is already in the table raises (PRIMARY KEY)
start_session_raises(sessions, t) == t \in DOMAIN sessions
start_session(sessions, t) == sessions @@ (t :> [total_messages |-> 0])

\* ConversationMemory.add_message: one row, and the session's counter
add_message_rows(rows, session_id, message_num, fallback) ==
    Append(rows, [session_id |-> session_id, message_num |-> message_num,
                  fallback |-> fallback])
add_message_sessions(sessions, session_id) ==
    IF session_id \in DOMAIN sessions
    THEN [sessions EXCEPT ![session_id].total_messages = @ + 1]
    ELSE sessions

\* a replacement condition that lets the instance serve one more turn
should_reset_Late(count, failures, age) ==
    \/ count > max_messages_before_reset
    \/ failures >= max_consecutive_failures
    \/ age > MaxAgentAge

\* handle_message's replacement condition, on the incremented counter
should_reset(count, failures, age) ==
    \/ count >= max_messages_before_reset
    \/ failures >= max_consecutive_failures
    \/ age > MaxAgentAge

\* create_agent_with_memory: delete the old instance (best effort), create a
\* new one; `fault` says which of the two service calls fails
create_agent_with_memory(aid, agents, n, fault) ==
    LET kept == IF aid # NoAgent /\ fault # "delete" THEN agents \ {aid} ELSE agents
    IN  IF fault = "create"
        THEN [agent_id |-> aid, agents |-> kept, created |-> n, raised |-> TRUE]
        ELSE [agent_id |-> n + 1, agents |-> kept \cup {n + 1},
              created |-> n + 1, raised |-> FALSE]

\* the faults a call of create_agent_with_memory can meet within the budget
CreateFaults ==
    IF hist.faults < MaxFaults THEN {"none", "delete", "create"} ELSE {"none"}

-----------------------------------------------------------------------------
(* The bridge of core/niya_bridge_with_memory.py: its handlers *)

\* the clients of the test scripts: aggressive_test.py never sends a session
\* id, memory_enhanced_test.py sends back the id it was given
Clients == {"sessionless", "keeps-session"}
\* the session id the run's client sends with its next request
ClientSession == IF hist.client = "sessionless" THEN NoSession ELSE current_session_id

\* handle_message, "Initialize session if needed": a request without a session
\* id starts a session; one naming another session than the current one
\* switches to it and zeroes the counters
session_init(sid_in) ==
    IF sid_in = NoSession
    THEN IF start_session_raises(conversation_sessions, now)
         THEN [raised |-> TRUE, session_id |-> NoSession,
               current |-> current_session_id, sessions |-> conversation_sessions,
               count |-> message_count, failures |-> consecutive_failures,
               switched |-> FALSE]
         ELSE [raised |-> FALSE, session_id |-> now, current |-> now,
               sessions |-> start_session(conversation_sessions, now),
               count |-> message_count, failures |-> consecutive_failures,
               switched |-> FALSE]
    ELSE [raised |-> FALSE, session_id |-> sid_in, current |-> sid_in,
          sessions |-> conversation_sessions,
          count |-> IF sid_in # current_session_id THEN 0 ELSE message_count,
          failures |-> IF sid_in # current_session_id THEN 0
                       ELSE consecutive_failures,
          switched |-> sid_in # current_session_id]

\* initialize(): start a session and create the first instance
WM_Initialize(fault, client) ==
    /\ pc[Main] = "constructed"
    /\ fault \in {"none", "create"}
    /\ LET made == create_agent_with_memory(NoAgent, {}, created, fault) IN
       /\ conversation_sessions' = start_session(conversation_sessions, now)
       /\ current_session_id' = now
       /\ agent_id' = made.agent_id
       /\ letta_agents' = made.agents
       /\ created' = made.created
       /\ pc' = [pc EXCEPT ![Main] = IF made.raised THEN "failed" ELSE "serving"]
       /\ hist' = [hist EXCEPT !.faults = @ + (IF fault = "none" THEN 0 ELSE 1),
                               !.client = client,
                               !.born = IF made.raised THEN @ ELSE now,
                               !.context = IF made.raised THEN @ ELSE now]
    /\ UNCHANGED <<now, user_facts, lastOp, message_count, consecutive_failures,
                   last_reset_time, messages, memory_health,
                   relationship_insights, local, late>>

\* handle_message with a non-empty message, up to the dispatch of the message
\* to the instance (the request thread then waits for the worker thread)
WM_Begin(t, sid_in, fault) ==
    /\ pc[Main] = "serving" /\ pc[t] = "idle"
    /\ fault \in CreateFaults
    /\ LET s == session_init(sid_in)
           count == s.count + 1
           reset == ~s.raised
                    /\ should_reset(count, s.failures, now - last_reset_time)
           made == create_agent_with_memory(agent_id, letta_agents, created, fault)
           replaced == reset /\ ~made.raised
           ok == ~s.raised /\ (reset => ~made.raised)
           turn == hist.turn + 1
       IN
       /\ fault # "none" => reset
       /\ conversation_sessions' = s.sessions
       /\ current_session_id' = s.current
       /\ message_count' = IF s.raised THEN s.count
                           ELSE IF replaced THEN 0 ELSE count
       /\ consecutive_failures' = IF ~ok THEN s.failures + 1
                                  ELSE IF reset THEN 0 ELSE s.failures
       /\ last_reset_time' = IF replaced THEN now ELSE last_reset_time
       /\ agent_id' = IF reset THEN made.agent_id ELSE agent_id
       /\ letta_agents' = IF reset THEN made.agents ELSE letta_agents
       /\ created' = IF reset THEN made.created ELSE created
       /\ pc' = IF ok THEN [pc EXCEPT ![t] = "waiting"] ELSE pc
       /\ local' = IF ok
                   THEN [local EXCEPT ![t] =
                            [session_id |-> s.session_id,
                             dispatched |-> IF reset THEN made.agent_id ELSE agent_id,
                             turn |-> turn, kind |-> "plain", waits |-> 1,
                             timed_out |-> FALSE]]
                   ELSE local
       /\ hist' = [hist EXCEPT
                     !.turn = turn,
                     !.resets = IF replaced THEN @ \cup {turn} ELSE @,
                     !.clean = @ /\ ok /\ fault = "none" /\ ~s.switched /\ AllIdle
                               /\ now - last_reset_time <= MaxAgentAge,
                     !.reply = IF ok THEN @ ELSE "error-fallback",
                     !.faults = @ + (IF fault = "none" THEN 0 ELSE 1),
                     !.born = IF replaced THEN now ELSE @,
                     !.served = IF ~ok THEN @ ELSE IF replaced THEN 1 ELSE @ + 1,
                     !.context = IF replaced THEN s.session_id ELSE @]
    /\ UNCHANGED <<now, user_facts, lastOp, messages, memory_health,
                   relationship_insights, late>>

\* handle_message from the return of get_priya_response_with_timeout to the
\* reply: `outcome` is what the call to the instance did within the deadline
WM_Finish(t, outcome, fault) ==
    /\ pc[t] = "waiting"
    /\ outcome \in {"ok", "timeout", "error"}
    /\ fault \in {"none", "delete", "create", "store"}
    /\ LET no_response == outcome # "ok"
           made == create_agent_with_memory(agent_id, letta_agents, created, fault)
           replaced == no_response /\ ~made.raised
           count == IF replaced THEN 0 ELSE message_count
           stored == (no_response => ~made.raised) /\ fault # "store"
           cost == (IF no_response THEN 1 ELSE 0) + (IF fault = "none" THEN 0 ELSE 1)
       IN
       /\ fault \in {"delete", "create"} => no_response
       /\ hist.faults + cost <= MaxFaults
       /\ agent_id' = IF no_response THEN made.agent_id ELSE agent_id
       /\ letta_agents' = IF no_response THEN made.agents ELSE letta_agents
       /\ created' = IF no_response THEN made.created ELSE created
       /\ message_count' = count
       /\ consecutive_failures' =
              IF stored THEN 0
              ELSE (IF replaced THEN 0 ELSE consecutive_failures) + 1
       /\ messages' = IF stored
                      THEN add_message_rows(messages, local[t].session_id, count,
                                            no_response)
                      ELSE messages
       /\ conversation_sessions' =
              IF stored
              THEN add_message_sessions(conversation_sessions, local[t].session_id)
              ELSE conversation_sessions
       /\ hist' = [hist EXCEPT
                     !.resets = IF replaced THEN @ \cup {local[t].turn} ELSE @,
                     !.clean = @ /\ cost = 0,
                     !.reply = IF ~stored THEN "error-fallback"
                               ELSE IF no_response THEN "fallback" ELSE "agent",
                     !.faults = @ + cost,
                     !.born = IF replaced THEN now ELSE @,
                     !.served = IF replaced THEN 0 ELSE @,
                     !.context = IF replaced THEN local[t].session_id ELSE @]
    /\ pc' = [pc EXCEPT ![t] = "idle"]
    /\ local' = [local EXCEPT ![t] = NoLocal]
    /\ UNCHANGED <<now, user_facts, lastOp, last_reset_time, current_session_id,
                   memory_health, relationship_insights, late>>

\* POST /reset: replace the instance on request
WM_Reset(fault) ==
    /\ pc[Main] = "serving"
    /\ hist.faults + (IF fault = "none" THEN 1 ELSE 2) <= MaxFaults
    /\ fault \in CreateFaults
    /\ LET made == create_agent_with_memory(agent_id, letta_agents, created, fault) IN
       /\ agent_id' = made.agent_id
       /\ letta_agents' = made.agents
       /\ created' = made.created
       /\ message_count' = IF made.raised THEN message_count ELSE 0
       /\ consecutive_failures' = IF made.raised THEN consecutive_failures ELSE 0
       /\ last_reset_time' = IF made.raised THEN last_reset_time ELSE now
       /\ hist' = [hist EXCEPT !.clean = FALSE,
                               !.faults = @ + (IF fault = "none" THEN 1 ELSE 2),
                               !.born = IF made.raised THEN @ ELSE now,
                               !.served = IF made.raised THEN @ ELSE 0,
                               !.context = IF made.raised THEN @
                                           ELSE current_session_id]
    /\ UNCHANGED <<now, user_facts, lastOp, current_session_id,
                   conversation_sessions, messages, memory_health,
                   relationship_insights, pc, local, late>>

\* time passes
WM_Tick(d) ==
    /\ now + d <= MaxTime
    /\ now' = now + d
    /\ UNCHANGED <<user_facts, lastOp, bridgeVars, storeVars>>

InitBridge ==
    /\ now = 0
    /\ user_facts = <<>>
    /\ lastOp = NoOp
    /\ agent_id = NoAgent /\ message_count = 0 /\ consecutive_failures = 0
    /\ last_reset_time = 0 /\ current_session_id = NoSession
    /\ letta_agents = {} /\ created = 0
    /\ conversation_sessions = <<>> /\ messages = <<>> /\ memory_health = <<>>
    /\ relationship_insights = <<>>
    /\ pc = [t \in {Main} \cup Threads |-> IF t = Main THEN "constructed" ELSE "idle"]
    /\ local = [t \in Threads |-> NoLocal]
    /\ late = {}
    /\ hist = InitHist

\* one client that keeps its session: a request is sent after the reply to the
\* previous one, so one request thread is ever busy
NextBridge ==
    \/ \E fault \in {"none", "create"} : \E client \in Clients :
            WM_Initialize(fault, client)
    \/ \E fault \in CreateFaults :
            hist.turn < MaxTurns /\ AllIdle
            /\ WM_Begin(FirstThread, ClientSession, fault)
    \/ \E t \in Threads : \E outcome \in {"ok", "timeout", "error"} :
       \E fault \in {"none", "delete", "create", "store"} :
            WM_Finish(t, outcome, fault)
    \/ \E fault \in CreateFaults : AllIdle /\ WM_Reset(fault)
    \/ \E d \in TickSteps : AllIdle /\ WM_Tick(d)

SpecBridge == InitBridge /\ [][NextBridge]_vars

\* the threaded server: requests are handled as they arrive
NextBridgeConc ==
    \/ \E fault \in {"none", "create"} : \E client \in Clients :
            WM_Initialize(fault, client)
    \/ \E t \in Threads : \E fault \in CreateFaults :
            hist.turn < MaxConcTurns /\ WM_Begin(t, ClientSession, fault)
    \/ \E t \in Threads : \E outcome \in {"ok", "timeout", "error"} :
       \E fault \in {"none", "delete", "create", "store"} :
            WM_Finish(t, outcome, fault)
    \/ \E d \in TickSteps : WM_Tick(d)

SpecBridgeConc == InitBridge /\ [][NextBridgeConc]_vars

-----------------------------------------------------------------------------
(* The Health Monitor (core/advanced_conversation_memory.py) *)

\* the tables an assessment reads and writes
CurrentStore ==
    [facts |-> user_facts, sessions |-> conversation_sessions,
     rows |-> messages, health |-> memory_health]

StoreBecomes(store) ==
    /\ user_facts' = store.facts
    /\ conversation_sessions' = store.sessions
    /\ messages' = store.rows
    /\ memory_health' = store.health
    /\ UNCHANGED relationship_insights

FactsOf(facts, session_id) == {k \in DOMAIN facts : k[1] = session_id}

RECURSIVE SumRefs(_, _)
SumRefs(rows, S) ==
    IF S = {} THEN 0
    ELSE LET i == CHOOSE i \in S : TRUE
         IN  rows[i].memory_references + SumRefs(rows, S \ {i})

\* ORDER BY message_num DESC LIMIT 10
RecentRows(rows, session_id) ==
    LET mine == {i \in DOMAIN rows : rows[i].session_id = session_id}
        n == Min(Cardinality(mine), 10)
    IN  CHOOSE S \in SUBSET mine :
            /\ Cardinality(S) = n
            /\ \A i \in S : \A j \in mine \ S :
                   rows[i].message_num >= rows[j].message_num

calculate_retention_score(rows, session_id) ==
    LET S == RecentRows(rows, session_id) IN
    IF S = {} THEN Pct(50)
    ELSE Min((SumRefs(rows, S) * Scale) \div Max(Cardinality(S) * 3, 1), Scale)

calculate_consistency_score(facts, session_id) ==
    LET mine == FactsOf(facts, session_id)
        flagged == {k \in mine : facts[k].contradictions # <<>>}
    IN  IF mine = {} THEN Scale
        ELSE Max(Scale - (Cardinality(flagged) * Scale) \div Cardinality(mine), 0)

\* variant: facts per message, without the cap
calculate_learning_velocity_Uncapped(facts, sessions, session_id, t) ==
    LET recent == {k \in FactsOf(facts, session_id) :
                      facts[k].first_mentioned > t - 3600}
        total_messages == IF sessions[session_id].total_messages = 0 THEN 1
                          ELSE sessions[session_id].total_messages
    IN  (Cardinality(recent) * Scale) \div Max(total_messages, 1)

calculate_learning_velocity(facts, sessions, session_id, t) ==
    LET recent == {k \in FactsOf(facts, session_id) :
                      facts[k].first_mentioned > t - 3600}
        total_messages == IF sessions[session_id].total_messages = 0 THEN 1
                          ELSE sessions[session_id].total_messages
    IN  Min((Cardinality(recent) * Scale) \div Max(total_messages, 1), Scale)

calculate_context_relevance(session_id) == Pct(70)

\* overall_health, the sum of the four sub-scores divided by 4, is counted in
\* quarters of the fixed-point unit: the integer n stands for n/HealthScale
HealthScale == 4 * Scale

\* the four sub-scores of assess_memory_health and their mean
health_metrics(store, session_id, t) ==
    LET retention_score == calculate_retention_score(store.rows, session_id)
        consistency_score == calculate_consistency_score(store.facts, session_id)
        learning_velocity ==
            calculate_learning_velocity(store.facts, store.sessions, session_id, t)
        context_relevance == calculate_context_relevance(session_id)
    IN  [session_id |-> session_id,
         retention_score |-> retention_score,
         consistency_score |-> consistency_score,
         learning_velocity |-> learning_velocity,
         context_relevance |-> context_relevance,
         overall_health |-> ((retention_score + consistency_score
                              + learning_velocity + context_relevance)
                             * HealthScale) \div (4 * Scale)]

\* variant: the pass is triggered below 0.85
IsUnhealthy_Below85(m) ==
    m.retention_score + m.consistency_score + m.learning_velocity
        + m.context_relevance < 4 * Pct(85)

\* overall_health < 0.6, overall_health being the mean of the four sub-scores
IsUnhealthy(m) ==
    m.retention_score + m.consistency_score + m.learning_velocity
        + m.context_relevance < 4 * Pct(60)

\* assess_memory_health: store the snapshot, then remediate if unhealthy
assess_memory_health(store, session_id, t) ==
    LET m == health_metrics(store, session_id, t) IN
    [store EXCEPT
        !.health = Append(@, m),
        !.facts = IF IsUnhealthy(m) THEN trigger_memory_optimization(@, session_id)
                  ELSE @]

\* find_memory_references: the stored facts of the session the reply mentions
MemoryReferences(facts, session_id) == 0..Cardinality(FactsOf(facts, session_id))

\* add_message_with_analysis on a text without candidate facts: the turn row
\* and the session's counter
add_message_with_analysis(store, session_id, message_num, refs) ==
    [store EXCEPT
        !.rows = Append(@, [session_id |-> session_id, message_num |-> message_num,
                            fallback |-> FALSE, memory_references |-> refs]),
        !.sessions = IF session_id \in DOMAIN @
                     THEN [@ EXCEPT ![session_id].total_messages = @ + 1]
                     ELSE @]

\* add_message_with_analysis on a text with candidate facts: json.dumps of the
\* candidates (their priority is an Enum) raises before anything is written
analysis_raises(kind) == kind = "fact"

-----------------------------------------------------------------------------
(* The bridge of core/niya_bridge_memory_optimized.py *)

\* turns one run of the memory-optimized bridge may take
MaxOptTurns == 5
\* messages with extractable facts sent in one run
MaxFactMessages == 1

reset_frequency == 4
\* should_reset_agent and _process_response_with_memory assess the health
\* when message_count is a multiple of this
health_check_interval == 5

MessageKinds == {"plain", "fact"}
SendOutcomes == {"ok", "empty", "error", "blank-error", "timeout"}

\* AdvancedConversationMemory has no method consolidate_memory_on_reset: the
\* call raises AttributeError
consolidate_memory_on_reset_raises == TRUE

Unmade(aid, agents, n) ==
    [agent_id |-> aid, agents |-> agents, created |-> n, raised |-> FALSE]

\* create_optimized_agent: one call of the service, nothing is deleted
create_optimized_agent(aid, agents, n, fault) ==
    IF fault = "create"
    THEN [agent_id |-> aid, agents |-> agents, created |-> n, raised |-> TRUE]
    ELSE [agent_id |-> n + 1, agents |-> agents \cup {n + 1},
          created |-> n + 1, raised |-> FALSE]

\* reset_agent_with_memory_consolidation: consolidate, delete, create; when
\* anything raises, the except branch only creates
reset_agent_with_memory_consolidation(aid, agents, n, fault) ==
    IF consolidate_memory_on_reset_raises
    THEN create_optimized_agent(aid, agents, n, fault)
    ELSE LET kept == IF aid # NoAgent /\ fault # "delete"
                     THEN agents \ {aid} ELSE agents
         IN  create_optimized_agent(aid, kept, n, "none")

\* the consolidation of reset_agent_with_memory_consolidation has run when the
\* instance is replaced
consolidated_before_reset == ~consolidate_memory_on_reset_raises

\* should_reset_agent with the count rule taken at every fifth message
should_reset_agent_EveryFifth(store, session_id, count, t) ==
    LET by_count == count > 0 /\ count % (reset_frequency + 1) = 0
        by_health == ~by_count /\ count > 0 /\ count % health_check_interval = 0
        unhealthy == IsUnhealthy(health_metrics(store, session_id, t))
    IN  [reset |-> by_count \/ (by_health /\ unhealthy),
         by_health |-> by_health /\ unhealthy,
         store |-> IF by_health
                   THEN assess_memory_health(store, session_id, t) ELSE store]

\* should_reset_agent with the health branch taken at any positive count
should_reset_agent_AnyCount(store, session_id, count, t) ==
    LET by_count == count > 0 /\ count % reset_frequency = 0
        by_health == ~by_count /\ count > 0
        unhealthy == IsUnhealthy(health_metrics(store, session_id, t))
    IN  [reset |-> by_count \/ (by_health /\ unhealthy),
         by_health |-> by_health /\ unhealthy,
         store |-> IF by_health
                   THEN assess_memory_health(store, session_id, t) ELSE store]

\* should_reset_agent: true at every reset_frequency-th message; otherwise, at
\* every fifth message, the health is assessed (and recorded) and a low score
\* makes it true.  `by_health` tells that the second branch returned True
should_reset_agent(store, session_id, count, t) ==
    LET by_count == count > 0 /\ count % reset_frequency = 0
        by_health == ~by_count /\ count > 0 /\ count % health_check_interval = 0
        unhealthy == IsUnhealthy(health_metrics(store, session_id, t))
    IN  [reset |-> by_count \/ (by_health /\ unhealthy),
         by_health |-> by_health /\ unhealthy,
         store |-> IF by_health
                   THEN assess_memory_health(store, session_id, t) ELSE store]

\* _process_response_with_memory, run by the worker thread when the reply comes
process_response_with_memory(store, session_id, count, refs, t) ==
    LET stored == add_message_with_analysis(store, session_id, count + 1, refs)
    IN  IF count % health_check_interval = 0
        THEN assess_memory_health(stored, session_id, t)
        ELSE stored

\* chat(), up to the dispatch of the message: create the first instance, ask
\* should_reset_agent and replace the instance when it says so
Chat_Begin(t, kind, fault) ==
    /\ pc[Main] = "serving" /\ pc[t] = "idle"
    /\ kind \in MessageKinds
    /\ kind = "fact" => hist.facts < MaxFactMessages
    /\ fault \in {"none", "create"}
    /\ fault # "none" => hist.faults < MaxFaults
    /\ LET first == agent_id = NoAgent
           made1 == IF first
                    THEN create_optimized_agent(agent_id, letta_agents, created, fault)
                    ELSE Unmade(agent_id, letta_agents, created)
           decided == IF made1.raised
                      THEN [reset |-> FALSE, by_health |-> FALSE,
                            store |-> CurrentStore]
                      ELSE should_reset_agent(CurrentStore, current_session_id,
                                              message_count, now)
           store1 == decided.store
           reset == decided.reset
           made2 == IF reset
                    THEN reset_agent_with_memory_consolidation(
                             made1.agent_id, made1.agents, made1.created,
                             IF first THEN "none" ELSE fault)
                    ELSE made1
           raised == made1.raised \/ made2.raised
           turn == hist.turn + 1
       IN
       /\ fault = "create" => first \/ reset
       /\ agent_id' = made2.agent_id
       /\ letta_agents' = made2.agents
       /\ created' = made2.created
       /\ message_count' = IF reset /\ ~made2.raised THEN 0 ELSE message_count
       /\ StoreBecomes(store1)
       /\ pc' = IF raised THEN pc ELSE [pc EXCEPT ![t] = "wait1"]
       /\ local' = IF raised THEN local
                   ELSE [local EXCEPT ![t] =
                            [session_id |-> current_session_id,
                             dispatched |-> made2.agent_id, turn |-> turn,
                             kind |-> kind, waits |-> 1, timed_out |-> FALSE]]
       /\ hist' = [hist EXCEPT
                     !.turn = turn,
                     !.resets = IF reset /\ ~raised THEN @ \cup {turn} ELSE @,
                     !.by_health = IF decided.by_health THEN @ \cup {turn} ELSE @,
                     !.consolidated =
                         IF reset /\ ~raised /\ consolidated_before_reset
                         THEN @ \cup {turn} ELSE @,
                     !.clean = @ /\ fault = "none" /\ kind = "plain",
                     !.reply = IF raised THEN "apology" ELSE @,
                     !.faults = @ + (IF fault = "none" THEN 0 ELSE 1),
                     !.facts = @ + (IF kind = "fact" THEN 1 ELSE 0)]
    /\ UNCHANGED <<now, lastOp, consecutive_failures, last_reset_time,
                   current_session_id, late>>

\* chat(), from the return of get_priya_response_with_timeout: `outcome` is what
\* the worker thread got from the instance within the deadline.  After the
\* first call an error leads to a reset and a second call; otherwise the reply
Chat_Reply(t, outcome, fault, refs) ==
    /\ pc[t] \in {"wait1", "wait2"}
    /\ outcome \in SendOutcomes
    /\ fault \in {"none", "create", "store"}
    /\ refs \in MemoryReferences(user_facts, current_session_id)
    /\ LET l == local[t]
           answered == outcome = "ok"
           raises == answered /\ (analysis_raises(l.kind) \/ fault = "store")
           store1 == IF answered /\ ~raises
                     THEN process_response_with_memory(
                              CurrentStore, current_session_id, message_count,
                              refs, now)
                     ELSE CurrentStore
           \* result["error"] is a non-empty string
           error == outcome \in {"empty", "error", "timeout"} \/ raises
           retry == error /\ pc[t] = "wait1"
           made == IF retry
                   THEN reset_agent_with_memory_consolidation(
                            agent_id, letta_agents, created, fault)
                   ELSE Unmade(agent_id, letta_agents, created)
           again == retry /\ ~made.raised
           store2 == IF error THEN store1
                     ELSE assess_memory_health(store1, current_session_id, now)
           cost == (IF answered THEN 0 ELSE 1) + (IF fault = "none" THEN 0 ELSE 1)
       IN
       /\ fault = "create" => retry
       /\ fault = "store" => answered /\ ~analysis_raises(l.kind)
       /\ hist.faults + cost <= MaxFaults
       /\ StoreBecomes(store2)
       /\ agent_id' = made.agent_id
       /\ letta_agents' = made.agents
       /\ created' = made.created
       /\ message_count' = IF again THEN 0
                           ELSE IF error THEN message_count
                           ELSE message_count + 1
       /\ late' = IF outcome = "timeout"
                  THEN late \cup {[turn |-> l.turn, agent |-> l.dispatched,
                                   kind |-> l.kind]}
                  ELSE late
       /\ pc' = [pc EXCEPT ![t] = IF again THEN "wait2" ELSE "idle"]
       /\ local' = [local EXCEPT ![t] =
                       IF again
                       THEN [l EXCEPT !.dispatched = made.agent_id,
                                      !.waits = @ + 1,
                                      !.timed_out = @ \/ outcome = "timeout"]
                       ELSE NoLocal]
       /\ hist' = [hist EXCEPT
                     !.resets = IF again THEN @ \cup {l.turn} ELSE @,
                     !.consolidated = IF again /\ consolidated_before_reset
                                      THEN @ \cup {l.turn} ELSE @,
                     !.answered = IF error THEN @
                                  ELSE @ \cup {<<l.turn, l.dispatched>>},
                     !.clean = @ /\ ~error /\ cost = 0,
                     !.reply = IF again THEN @
                               ELSE IF retry THEN "apology"
                               ELSE IF error THEN "fallback"
                               ELSE IF outcome = "blank-error" THEN "empty"
                               ELSE "agent",
                     !.faults = @ + cost]
    /\ UNCHANGED <<now, lastOp, consecutive_failures, last_reset_time,
                   current_session_id>>

\* a worker thread abandoned after its deadline gets its reply from the
\* instance (or an error) and runs the rest of get_response
LateComplete(w, outcome, refs) ==
    /\ w \in late
    /\ outcome \in {"ok", "error"}
    /\ refs \in MemoryReferences(user_facts, current_session_id)
    /\ StoreBecomes(IF outcome = "ok" /\ ~analysis_raises(w.kind)
                    THEN process_response_with_memory(
                             CurrentStore, current_session_id, message_count,
                             refs, now)
                    ELSE CurrentStore)
    /\ late' = late \ {w}
    /\ UNCHANGED <<now, lastOp, agent_id, message_count, consecutive_failures,
                   last_reset_time, current_session_id, letta_agents, created,
                   pc, local, hist>>

\* after MemoryOptimizedNiyaBridge(): connected, the session started
InitOpt ==
    /\ now = 0
    /\ user_facts = <<>>
    /\ lastOp = NoOp
    /\ agent_id = NoAgent /\ message_count = 0 /\ consecutive_failures = 0
    /\ last_reset_time = 0 /\ current_session_id = now
    /\ letta_agents = {} /\ created = 0
    /\ conversation_sessions = start_session(<<>>, now)
    /\ messages = <<>> /\ memory_health = <<>>
    /\ relationship_insights = <<>>
    /\ pc = [t \in {Main} \cup Threads |-> IF t = Main THEN "serving" ELSE "idle"]
    /\ local = [t \in Threads |-> NoLocal]
    /\ late = {}
    /\ hist = InitHist

\* one client: a message is sent after the reply to the previous one
NextOpt ==
    \/ \E kind \in MessageKinds : \E fault \in {"none", "create"} :
            hist.turn < MaxOptTurns /\ AllIdle /\ Chat_Begin(FirstThread, kind, fault)
    \/ \E t \in Threads : \E outcome \in SendOutcomes :
       \E fault \in {"none", "create", "store"} :
       \E refs \in MemoryReferences(user_facts, current_session_id) :
            Chat_Reply(t, outcome, fault, refs)
    \/ \E w \in late : \E outcome \in {"ok", "error"} :
       \E refs \in MemoryReferences(user_facts, current_session_id) :
            LateComplete(w, outcome, refs)

SpecOpt == InitOpt /\ [][NextOpt]_vars

-----------------------------------------------------------------------------
(* Text analysis of a turn (core/advanced_conversation_memory.py) *)

RECURSIVE Join(_, _)
\* sep.join(parts)
Join(parts, sep) ==
    IF Len(parts) = 0 THEN ""
    ELSE IF Len(parts) = 1 THEN parts[1]
    ELSE parts[1] \o sep \o Join(Tail(parts), sep)

RECURSIVE IntToStr(_)
\* str(n) of a natural number
IntToStr(n) ==
    LET Digits == "0123456789" IN
    IF n < 10 THEN SubSeq(Digits, n + 1, n + 1)
    ELSE IntToStr(n \div 10) \o SubSeq(Digits, (n % 10) + 1, (n % 10) + 1)

\* f"{num/den:.1f}" of a non-negative fraction: the nearest tenth, a tie going
\* to the even tenth
Format1(num, den) ==
    LET tenths == (10 * num) \div den
        rest == (10 * num) % den
        up == 2 * rest > den \/ (2 * rest = den /\ tenths % 2 = 1)
        rounded == IF up THEN tenths + 1 ELSE tenths
    IN  IntToStr(rounded \div 10) \o "." \o IntToStr(rounded % 10)

RECURSIVE DetectedFrom(_, _, _)
\* the labels of `dict`, in its order, one of whose keywords is in the text
DetectedFrom(dict, text_lower, i) ==
    IF i > Len(dict) THEN <<>>
    ELSE (IF AnyIn(dict[i][2], text_lower) THEN <<dict[i][1]>> ELSE <<>>)
            \o DetectedFrom(dict, text_lower, i + 1)

topic_keywords ==
    << <<"music", {"music", "song", "sing", "dance", "beat", "guitar", "piano", "band"}>>,
       <<"love", {"love", "relationship", "romantic", "heart", "feelings", "dating"}>>,
       <<"work", {"work", "job", "career", "office", "boss", "colleague", "business"}>>,
       <<"family", {"family", "mother", "father", "sister", "brother", "parents"}>>,
       <<"hobbies", {"hobby", "activity", "fun", "enjoy", "interest", "passion"}>>,
       <<"travel", {"travel", "trip", "vacation", "visit", "journey", "explore"}>>,
       <<"food", {"food", "eat", "cook", "restaurant", "meal", "dinner"}>>,
       <<"technology", {"tech", "computer", "phone", "app", "software", "internet"}>>,
       <<"sports", {"sport", "game", "play", "team", "exercise", "fitness"}>>,
       <<"education", {"school", "study", "learn", "university", "college", "education"}>> >>

extract_topics(text) == DetectedFrom(topic_keywords, Lower(text), 1)

emotions ==
    << <<"happy", {"happy", "joy", "excited", "great", "amazing", "wonderful"}>>,
       <<"sad", {"sad", "down", "depressed", "upset", "disappointed"}>>,
       <<"angry", {"angry", "mad", "frustrated", "annoyed", "furious"}>>,
       <<"anxious", {"worried", "anxious", "nervous", "stressed", "concerned"}>>,
       <<"love", {"love", "adore", "cherish", "care", "affection"}>> >>

positive_words == {"good", "great", "happy", "love", "amazing", "wonderful"}
negative_words == {"bad", "sad", "hate", "terrible", "awful", "horrible"}

\* intensities are counted in sixths: min(count / 3, 1.0) and the neutral 0.5
IntensityScale == 6

\* analyze_advanced_sentiment; emotion "" stands for None
analyze_advanced_sentiment(text) ==
    LET text_lower == Lower(text)
        detected_emotions == DetectedFrom(emotions, text_lower, 1)
        pos_count == Cardinality({w \in positive_words : Contains(text_lower, w)})
        neg_count == Cardinality({w \in negative_words : Contains(text_lower, w)})
    IN  [sentiment |-> IF pos_count > neg_count THEN "positive"
                       ELSE IF neg_count > pos_count THEN "negative"
                       ELSE "neutral",
         intensity |-> IF pos_count > neg_count
                       THEN Min((pos_count * IntensityScale) \div 3, IntensityScale)
                       ELSE IF neg_count > pos_count
                       THEN Min((neg_count * IntensityScale) \div 3, IntensityScale)
                       ELSE IntensityScale \div 2,
         emotion |-> IF Len(detected_emotions) > 0 THEN detected_emotions[1] ELSE "",
         triggers |-> detected_emotions]

\* detect_conversation_stage, from the session's stored turn count
detect_conversation_stage(total_messages, user_message) ==
    LET user_msg_lower == Lower(user_message) IN
    IF total_messages <= 2 THEN "greeting"
    ELSE IF AnyIn({"feel", "emotion", "sad", "happy", "worried"}, user_msg_lower)
    THEN "emotional_support"
    ELSE IF AnyIn({"dream", "future", "relationship", "love", "life"}, user_msg_lower)
    THEN "deep_conversation"
    ELSE IF total_messages <= 8 THEN "getting_to_know"
    ELSE "casual_chat"

-----------------------------------------------------------------------------
(* The Extractor: AdvancedConversationMemory.extract_high_value_info *)

RECURSIVE WordEnd(_, _)
\* the position after the longest run of word characters (the characters \w
\* matches in a lower-cased ASCII text) that starts at pos
WordEnd(text, pos) ==
    LET WordChars == "abcdefghijklmnopqrstuvwxyz0123456789_"
        IsWordChar(c) == \E i \in 1..Len(WordChars) : SubSeq(WordChars, i, i) = c
    IN  IF pos <= Len(text) /\ IsWordChar(SubSeq(text, pos, pos))
        THEN WordEnd(text, pos + 1)
        ELSE pos

NoMatch == [ok |-> FALSE, end |-> 0, groups |-> <<>>]

StartsAt(text, pos, word) ==
    /\ pos + Len(word) - 1 <= Len(text)
    /\ SubSeq(text, pos, pos + Len(word) - 1) = word

RECURSIVE MatchAt(_, _, _, _)
\* re.match of the elements i.. of a pattern at pos.  An element is a literal
\* <<"lit", s>>, the group (\w+) <<"w">> or a group of alternatives
\* <<"alt", <<s1, ...>>>>.  Every literal that follows (\w+) in the patterns of
\* the source starts with a space, so the greedy run is the only candidate.
MatchAt(pattern, i, text, pos) ==
    IF i > Len(pattern) THEN [ok |-> TRUE, end |-> pos, groups |-> <<>>]
    ELSE LET e == pattern[i] IN
         IF e[1] = "lit"
         THEN IF StartsAt(text, pos, e[2])
              THEN MatchAt(pattern, i + 1, text, pos + Len(e[2]))
              ELSE NoMatch
         ELSE IF e[1] = "w"
         THEN LET stop == WordEnd(text, pos)
                  rest == MatchAt(pattern, i + 1, text, stop)
              IN  IF stop > pos /\ rest.ok
                  THEN [rest EXCEPT !.groups = <<SubSeq(text, pos, stop - 1)>> \o @]
                  ELSE NoMatch
         ELSE LET fits == {k \in 1..Len(e[2]) :
                             /\ StartsAt(text, pos, e[2][k])
                             /\ MatchAt(pattern, i + 1, text,
                                        pos + Len(e[2][k])).ok}
              IN  IF fits = {} THEN NoMatch
                  ELSE LET k == CHOOSE k \in fits : \A j \in fits : k <= j
                           rest == MatchAt(pattern, i + 1, text, pos + Len(e[2][k]))
                       IN  [rest EXCEPT !.groups = <<e[2][k]>> \o @]

RECURSIVE FindAll(_, _, _)
\* re.findall(pattern, text): the matches from left to right, not overlapping;
\* a match is the whole text matched when the pattern has no group, the
\* group's text when it has one, the tuple of the groups otherwise
FindAll(pattern, text, pos) ==
    IF pos > Len(text) THEN <<>>
    ELSE LET m == MatchAt(pattern, 1, text, pos) IN
         IF m.ok
         THEN << [is_tuple |-> Len(m.groups) >= 2,
                  str |-> IF Len(m.groups) = 0 THEN SubSeq(text, pos, m.end - 1)
                          ELSE m.groups[1],
                  groups |-> m.groups] >>
              \o FindAll(pattern, text, m.end)
         ELSE FindAll(pattern, text, pos + 1)

W == <<"w">>
Lit(s) == <<"lit", s>>

\* self.high_value_patterns (the lists extract_high_value_info reads)
high_value_patterns ==
    [identity |->
        << <<Lit("my name is "), W>>, <<Lit("i am "), W>>, <<Lit("call me "), W>> >>,
     preferences |->
        << <<Lit("my favorite "), W, Lit(" is "), W>>,
           <<Lit("i love "), W>>, <<Lit("i hate "), W>> >>,
     emotions |->
        << <<Lit("i feel")>>,
           <<Lit("i'm "),
             <<"alt", <<"happy", "sad", "excited", "worried", "stressed">>>>>> >>]

direct_statements ==
    << <<Lit("my "), W, Lit(" is "), W>>, <<Lit("i work as "), W>>,
       <<Lit("i study "), W>>, <<Lit("i live in "), W>> >>

RECURSIVE AllMatches(_, _, _)
\* the matches of the patterns n.. of a list, pattern by pattern
AllMatches(patterns, n, text) ==
    IF n > Len(patterns) THEN <<>>
    ELSE FindAll(patterns[n], text, 1) \o AllMatches(patterns, n + 1, text)

Candidate(fact_type, category, key_phrase, value, confidence, priority) ==
    [fact_type |-> fact_type, category |-> category, key_phrase |-> key_phrase,
     value |-> value, confidence |-> confidence, priority |-> priority]

\* extract_high_value_info for one turn: the candidates in the order found
extract_high_value_info(user_message) ==
    LET user_msg == Lower(user_message)
        identity == AllMatches(high_value_patterns.identity, 1, user_msg)
        preferences == AllMatches(high_value_patterns.preferences, 1, user_msg)
        feelings == AllMatches(high_value_patterns.emotions, 1, user_msg)
        direct == SelectSeq(AllMatches(direct_statements, 1, user_msg),
                            LAMBDA m : m.is_tuple)
    IN  [n \in 1..Len(identity) |->
            Candidate("identity", "core_identity", "name",
                      IF identity[n].is_tuple THEN identity[n].groups[1]
                      ELSE identity[n].str,
                      Pct(95), "critical")]
        \o [n \in 1..Len(preferences) |->
            Candidate("preference", "interests",
                      IF preferences[n].is_tuple THEN preferences[n].groups[1]
                      ELSE "preference",
                      IF preferences[n].is_tuple THEN preferences[n].groups[2]
                      ELSE preferences[n].str,
                      Pct(85), "high")]
        \o [n \in 1..Len(feelings) |->
            Candidate("emotion", "emotional_state", "current_feeling",
                      feelings[n].str, Pct(70), "medium")]
        \o [n \in 1..Len(direct) |->
            Candidate("personal_info", "life_details", direct[n].groups[1],
                      direct[n].groups[2], Pct(90), "high")]

-----------------------------------------------------------------------------
(* The turn pipeline: AdvancedConversationMemory.add_message_with_analysis *)

\* trust_level is stored in tenths
TrustScale == 10

\* AdvancedConversationMemory.start_session: INSERT of the session row (stage
\* greeting, trust 0.3; the other columns take their defaults, "" being NULL)
advanced_start_session(sessions, session_id) ==
    [s \in DOMAIN sessions \cup {session_id} |->
        IF s = session_id
        THEN [total_messages |-> 0, conversation_stage |-> "greeting",
              trust_level |-> 3, relationship_depth |-> "acquaintance",
              emotional_state |-> ""]
        ELSE sessions[s]]

\* the replies of the agent in the model's runs
Replies == {"Tell me more, jaan!", "I remember your name, and your job!"}

\* `value.lower() in response_lower`, tabulated once over the values and the
\* key phrases of the model's facts
MentionedIn ==
    UNION {IF Contains(Lower(p[2]), Lower(p[1])) THEN {p} ELSE {} :
                p \in (FactValues \cup {"name", "preference", "job"}) \X Replies}

\* find_memory_references: the facts of the session whose value or key phrase
\* occurs in the reply, one reference per fact
find_memory_references(facts, session_id, priya_response) ==
    {k \in FactsOf(facts, session_id) :
        \/ <<facts[k].value, priya_response>> \in MentionedIn
        \/ <<k[3], priya_response>> \in MentionedIn}

\* the user's messages of the model's runs
UserTexts ==
    {"hello", "What a great song", "Work was terrible today", "I love guitar",
     "I hate guitar now", "My name is Alex and I love guitar."}

\* the analyses add_message_with_analysis makes of the texts of a turn,
\* tabulated once over the model's texts
TurnAnalyses ==
    {<<p[1], p[2],
       [high_value_info |-> extract_high_value_info(p[1]),
        sentiment_analysis |-> analyze_advanced_sentiment(p[1]),
        topics |-> extract_topics(p[1] \o " " \o p[2])]>> :
            p \in UserTexts \X Replies}

AnalysisOf(user_message, priya_response) ==
    (CHOOSE a \in TurnAnalyses : a[1] = user_message /\ a[2] = priya_response)[3]

\* the row of table messages for an analysed turn; the row of table
\* emotional_timeline written with it is the row's emotion, when it has one
AnalysedRow(session_id, message_num, sentiment_analysis, topics, stage, refs, t) ==
    [session_id |-> session_id, message_num |-> message_num, fallback |-> FALSE,
     memory_references |-> refs,
     sentiment |-> sentiment_analysis.sentiment,
     emotion_intensity |-> sentiment_analysis.intensity,
     emotion |-> sentiment_analysis.emotion,
     topics |-> topics, conversation_stage |-> stage, timestamp |-> t]

\* add_message_with_analysis(session_id, message_num, user_message,
\* priya_response) at time t.  json.dumps(high_value_info) is evaluated while
\* the parameters of the INSERT are built: the priority of a candidate is a
\* MemoryPriority, which json cannot serialize, so a turn with at least one
\* candidate raises TypeError before anything is written.  The loop that
\* reconciles the candidates runs only over an empty list.
analysed_turn(store, session_id, message_num, user_message, priya_response, t) ==
    LET analysis == AnalysisOf(user_message, priya_response)
        known == session_id \in DOMAIN store.sessions
        stage == detect_conversation_stage(
                     IF known THEN store.sessions[session_id].total_messages ELSE 0,
                     user_message)
        refs == Cardinality(find_memory_references(store.facts, session_id,
                                                   priya_response))
    IN  IF Len(analysis.high_value_info) > 0
        THEN [raised |-> TRUE, store |-> store]
        ELSE [raised |-> FALSE,
              store |->
                [store EXCEPT
                    !.rows = Append(@, AnalysedRow(session_id, message_num,
                                                   analysis.sentiment_analysis,
                                                   analysis.topics, stage, refs, t)),
                    !.sessions =
                        IF known
                        THEN [@ EXCEPT
                                ![session_id].total_messages = @ + 1,
                                ![session_id].conversation_stage = stage,
                                ![session_id].emotional_state =
                                    analysis.sentiment_analysis.sentiment]
                        ELSE @]]

-----------------------------------------------------------------------------
(* The Synthesizer: AdvancedConversationMemory.generate_optimized_memory_blocks *)

\* self.max_memory_block_length
max_memory_block_length ==
    [user_essence |-> 200, relationship_state |-> 150,
     conversation_context |-> 150, emotional_context |-> 100]

persona_text ==
    "You are Priya, a warm and caring AI companion who speaks in a mix of English and Hindi. You're empathetic, curious about the user's life, and build genuine connections. You remember important details and show interest in the user's wellbeing."

\* variant: the assembled text is kept whole
Cut_Nothing(text, max) == text

\* text[:max]
Cut(text, max) == SubSeq(text, 1, Min(Len(text), max))

\* variant: the floor itself is let through
IsEssenceFact_AtFloor(row) ==
    row.priority \in {"critical", "high"} /\ row.confidence >= Pct(70)

\* WHERE priority IN ('critical', 'high') AND confidence > 0.7
IsEssenceFact(row) ==
    row.priority \in {"critical", "high"} /\ row.confidence > Pct(70)

\* ORDER BY priority DESC, confidence DESC: row a must come before row b
\* (the priorities are compared as texts)
OrderedBefore(a, b) ==
    LET PriorityTextRank(priority) ==
            IF priority = "critical" THEN 1
            ELSE IF priority = "high" THEN 2
            ELSE IF priority = "low" THEN 3
            ELSE 4
    IN  \/ PriorityTextRank(a.priority) > PriorityTextRank(b.priority)
        \/ /\ a.priority = b.priority
           /\ a.confidence > b.confidence

\* the results the SELECT of build_user_essence may return: the rows that pass
\* the filter in the order of the ORDER BY (rows that tie come in any order),
\* cut to the LIMIT
EssenceSelections(facts, session_id) ==
    LET found == {k \in FactsOf(facts, session_id) : IsEssenceFact(facts[k])}
        n == Cardinality(found)
        RECURSIVE Sorted(_)
        \* the orders of the rows S in which no row comes after a row it must
        \* come before
        Sorted(S) ==
            IF S = {} THEN {<<>>}
            ELSE UNION {{<<k>> \o rest : rest \in Sorted(S \ {k})} :
                        k \in {k \in S : \A j \in S :
                                   ~OrderedBefore(facts[j], facts[k])}}
    IN  {SubSeq(order, 1, Min(n, 10)) : order \in Sorted(found)}

\* the facts build_user_essence renders out of a selection: the first fact
\* whose key phrase is name, three preferences, two personal_info facts
EssenceNames(selected) ==
    SubSeq(SelectSeq(selected, LAMBDA k : k[3] = "name"), 1,
           Min(1, Len(SelectSeq(selected, LAMBDA k : k[3] = "name"))))
EssencePreferences(selected) ==
    SubSeq(SelectSeq(selected, LAMBDA k : k[2] = "preference"), 1,
           Min(3, Len(SelectSeq(selected, LAMBDA k : k[2] = "preference"))))
EssencePersonalInfo(selected) ==
    SubSeq(SelectSeq(selected, LAMBDA k : k[2] = "personal_info"), 1,
           Min(2, Len(SelectSeq(selected, LAMBDA k : k[2] = "personal_info"))))

\* build_user_essence over the selection the SELECT returned
build_user_essence(facts, selected) ==
    LET KeyValueText(k) == k[3] \o ": " \o facts[k].value
        name_facts == EssenceNames(selected)
        preferences == EssencePreferences(selected)
        personal_info == EssencePersonalInfo(selected)
        essence_parts ==
            (IF Len(name_facts) > 0 THEN <<facts[name_facts[1]].value>> ELSE <<>>)
            \o (IF Len(preferences) > 0
                THEN <<Join([i \in 1..Len(preferences) |->
                                KeyValueText(preferences[i])], " | ")>>
                ELSE <<>>)
            \o (IF Len(personal_info) > 0
                THEN <<Join([i \in 1..Len(personal_info) |->
                                KeyValueText(personal_info[i])], " | ")>>
                ELSE <<>>)
    IN  IF Len(selected) = 0 THEN "" ELSE Join(essence_parts, " | ")

\* the facts whose text build_user_essence puts in the block
RenderedFacts(selected) ==
    {EssenceNames(selected)[i] : i \in 1..Len(EssenceNames(selected))}
    \cup {EssencePreferences(selected)[i] : i \in 1..Len(EssencePreferences(selected))}
    \cup {EssencePersonalInfo(selected)[i] :
            i \in 1..Len(EssencePersonalInfo(selected))}

\* build_relationship_state
build_relationship_state(sessions, session_id) ==
    IF session_id \notin DOMAIN sessions THEN ""
    ELSE LET s == sessions[session_id] IN
         Join(<<"Stage: " \o s.conversation_stage,
                "Trust: " \o Format1(s.trust_level, TrustScale) \o "/1.0",
                "Depth: " \o (IF s.relationship_depth = "" THEN "developing"
                              ELSE s.relationship_depth),
                "Messages: " \o IntToStr(s.total_messages)>>, " | ")

\* ORDER BY message_num DESC LIMIT n over the rows of the session: the sets of
\* rows the SELECT may return (rows with equal message_num tie)
LatestRows(rows, session_id, limit) ==
    LET mine == {i \in DOMAIN rows : rows[i].session_id = session_id}
        n == Min(Cardinality(mine), limit)
    IN  {S \in SUBSET mine :
            /\ Cardinality(S) = n
            /\ \A i \in S : \A j \in mine \ S :
                   rows[i].message_num >= rows[j].message_num}

\* list(set(all_topics))[:3]: three of the distinct topics (all of them when
\* there are fewer), in the iteration order of the set
TopicPicks(rows, S) ==
    LET all_topics ==
            UNION {{rows[i].topics[n] : n \in 1..Len(rows[i].topics)} : i \in S}
        n == Min(Cardinality(all_topics), 3)
    IN  {pick \in [1..n -> all_topics] :
            \A i, j \in 1..n : i # j => pick[i] # pick[j]}

\* max(set(sentiments), key=sentiments.count): a most frequent sentiment,
\* the first of them in the iteration order of the set
DominantSentiments(rows, S) ==
    LET count(sentiment) == Cardinality({i \in S : rows[i].sentiment = sentiment})
    IN  {rows[i].sentiment : i \in
            {i \in S : \A j \in S :
                count(rows[i].sentiment) >= count(rows[j].sentiment)}}

\* build_conversation_context over the rows S the SELECT returned
build_conversation_context(S, unique_topics, dominant_sentiment) ==
    IF S = {} THEN ""
    ELSE Join((IF Len(unique_topics) > 0
               THEN <<"Recent topics: " \o Join(unique_topics, ", ")>> ELSE <<>>)
              \o <<"User mood: " \o dominant_sentiment, "Active conversation flow">>,
              " | ")

\* ORDER BY timestamp DESC LIMIT 3 over the rows of emotional_timeline of the
\* session (one per turn with an emotion): the results the SELECT may return
\* (CURRENT_TIMESTAMP counts whole seconds, rows of one second tie)
TimelineSelections(rows, session_id) ==
    LET mine == {i \in DOMAIN rows :
                    rows[i].session_id = session_id /\ rows[i].emotion # ""}
        n == Cardinality(mine)
        sorted == {order \in [1..n -> mine] :
                     /\ \A i, j \in 1..n : i # j => order[i] # order[j]
                     /\ \A i, j \in 1..n :
                           i < j => rows[order[i]].timestamp >= rows[order[j]].timestamp}
    IN  {SubSeq(order, 1, Min(n, 3)) : order \in sorted}

RECURSIVE SumIntensity(_, _)
SumIntensity(rows, selected) ==
    IF Len(selected) = 0 THEN 0
    ELSE rows[Head(selected)].emotion_intensity + SumIntensity(rows, Tail(selected))

\* build_emotional_context over the timeline rows the SELECT returned
build_emotional_context(rows, selected) ==
    IF Len(selected) = 0 THEN ""
    ELSE Join(<<"Current emotion: " \o rows[selected[1]].emotion,
                "Intensity: "
                    \o Format1(SumIntensity(rows, selected),
                               IntensityScale * Len(selected))
                    \o "/1.0">>, " | ")

\* variant: the block is emitted whatever its text
SpecializedBlock_Always(label, text) ==
    <<[label |-> label, value |-> Cut(text, max_memory_block_length[label])]>>

\* `if text: memory_blocks.append({... "value": text[:max] ...})`
SpecializedBlock(label, text) ==
    IF text # ""
    THEN <<[label |-> label, value |-> Cut(text, max_memory_block_length[label])]>>
    ELSE <<>>

\* generate_optimized_memory_blocks, from the four assembled texts
generate_optimized_memory_blocks(assembled) ==
    <<[label |-> "persona", value |-> persona_text]>>
    \o SpecializedBlock("user_essence", assembled.user_essence)
    \o SpecializedBlock("relationship_state", assembled.relationship_state)
    \o SpecializedBlock("conversation_context", assembled.conversation_context)
    \o SpecializedBlock("emotional_context", assembled.emotional_context)

\* the four texts the builders may assemble in a state of the store, with the
\* facts rendered in the essence
AssembledTexts(store, session_id) ==
    {[user_essence |-> build_user_essence(store.facts, selected),
      relationship_state |-> build_relationship_state(store.sessions, session_id),
      conversation_context |->
          build_conversation_context(S, unique_topics, dominant_sentiment),
      emotional_context |-> build_emotional_context(store.rows, felt),
      selected |-> selected,
      rendered |-> RenderedFacts(selected)] :
        <<selected, S, unique_topics, dominant_sentiment, felt>> \in
            UNION {UNION {{<<sel, S, pick, mood, felt>> :
                              pick \in TopicPicks(store.rows, S),
                              mood \in IF S = {} THEN {"neutral"}
                                       ELSE DominantSentiments(store.rows, S),
                              felt \in TimelineSelections(store.rows, session_id)} :
                          S \in LatestRows(store.rows, session_id, 5)} :
                   sel \in EssenceSelections(store.facts, session_id)}}

-----------------------------------------------------------------------------
(* AdvancedConversationMemory driven through its API, one session *)

\* calls of store_user_fact_with_confidence, add_message_with_analysis and
\* assess_memory_health in one run
MaxMemOps == 3
\* the clock of these runs stops here
MaxMemTime == 3600

TheSession == "s1"
NameKey == <<TheSession, "identity", "name">>
MemKeys == {NameKey, PreferenceKey, <<TheSession, "personal_info", "job">>}

\* what store_user_fact_with_confidence is called with, per key:
\* <<value, confidence, priority>>
MemCandidates(key) ==
    IF key = NameKey
    THEN {<<"alex", Pct(70), "critical">>, <<"alex", Pct(90), "critical">>}
    ELSE IF key = PreferenceKey
    THEN {<<"Love guitar", Pct(90), "high">>, <<"hate guitar", Pct(70), "high">>,
          <<LongValue, Pct(90), "high">>}
    ELSE {<<"pilot", Pct(20), "high">>, <<"pilot", Pct(90), "high">>}

\* the turns add_message_with_analysis is called with: <<message, reply>>
MemExchanges ==
    {<<"What a great song", "Tell me more, jaan!">>,
     <<"Work was terrible today", "I remember your name, and your job!">>,
     <<"I love guitar", "Tell me more, jaan!">>}

MemOps == hist.facts + hist.turn + Len(memory_health)

\* a call of store_user_fact_with_confidence
Mem_Store(key, value, confidence, priority) ==
    /\ MemOps < MaxMemOps
    /\ WithinFactBounds(user_facts, key, value, confidence)
    /\ user_facts' = StoreFact(user_facts, key, value, confidence, priority, now)
    /\ lastOp' = [op |-> "reconcile", key |-> key, session |-> key[1],
                  outcome |-> FactOutcome(user_facts, key, value, confidence)]
    /\ hist' = [hist EXCEPT !.facts = @ + 1]
    /\ UNCHANGED <<now, agent_id, message_count, consecutive_failures,
                   last_reset_time, current_session_id, letta_agents, created,
                   pc, local, late, storeVars>>

\* a call of add_message_with_analysis for the next turn of the session
TurnEffect(user_message, priya_response) ==
    LET done == analysed_turn(CurrentStore, TheSession,
                              Cardinality({i \in DOMAIN messages :
                                              messages[i].session_id = TheSession}) + 1,
                              user_message, priya_response, now)
    IN  /\ StoreBecomes(done.store)
        /\ lastOp' = [op |-> "turn", key |-> <<>>, session |-> TheSession,
                      outcome |-> IF done.raised THEN "raised" ELSE "stored"]
        /\ UNCHANGED <<now, agent_id, message_count, consecutive_failures,
                       last_reset_time, current_session_id, letta_agents, created,
                       pc, local, late>>

Mem_Turn(user_message, priya_response) ==
    /\ MemOps < MaxMemOps
    /\ TurnEffect(user_message, priya_response)
    /\ hist' = [hist EXCEPT !.turn = @ + 1]

\* a call of assess_memory_health; for a session without a row,
\* calculate_learning_velocity raises (fetchone() is None) before the snapshot
\* is written
Mem_Assess ==
    /\ MemOps < MaxMemOps
    /\ IF TheSession \in DOMAIN conversation_sessions
       THEN /\ StoreBecomes(assess_memory_health(CurrentStore, TheSession, now))
            /\ lastOp' = [op |-> "assess", key |-> <<>>, session |-> TheSession,
                          outcome |-> "",
                          metrics |-> health_metrics(CurrentStore, TheSession, now)]
       ELSE /\ UNCHANGED <<user_facts, storeVars>>
            /\ lastOp' = [op |-> "assess", key |-> <<>>, session |-> TheSession,
                          outcome |-> "raised"]
    /\ UNCHANGED <<now, bridgeVars>>

\* a call of generate_optimized_memory_blocks
Mem_Synthesize ==
    /\ \E assembled \in AssembledTexts(CurrentStore, TheSession) :
          lastOp' = [op |-> "synthesize", key |-> <<>>, session |-> TheSession,
                     outcome |-> "", assembled |-> assembled,
                     blocks |-> generate_optimized_memory_blocks(assembled)]
    /\ UNCHANGED <<now, user_facts, storeVars, bridgeVars>>

\* an hour passes between two calls
Mem_Tick ==
    /\ now + 3600 <= MaxMemTime
    /\ now' = now + 3600
    /\ lastOp' = [op |-> "tick", key |-> <<>>, session |-> "", outcome |-> ""]
    /\ UNCHANGED <<user_facts, storeVars, bridgeVars>>

\* before the first call: the session has been started or not
InitMemory ==
    /\ now = 0
    /\ user_facts = <<>>
    /\ lastOp = NoOp
    /\ agent_id = NoAgent /\ message_count = 0 /\ consecutive_failures = 0
    /\ last_reset_time = 0 /\ current_session_id = TheSession
    /\ letta_agents = {} /\ created = 0
    /\ conversation_sessions \in {<<>>, advanced_start_session(<<>>, TheSession)}
    /\ messages = <<>> /\ memory_health = <<>>
    /\ relationship_insights = <<>>
    /\ pc = <<>> /\ local = <<>> /\ late = {}
    /\ hist = InitHist

NextMemory ==
    \/ \E key \in MemKeys : \E c \in MemCandidates(key) :
            Mem_Store(key, c[1], c[2], c[3])
    \/ \E e \in MemExchanges : Mem_Turn(e[1], e[2])
    \/ Remediate(TheSession)
    \/ Mem_Assess
    \/ Mem_Synthesize
    \/ Mem_Tick

SpecMemory == InitMemory /\ [][NextMemory]_vars

-----------------------------------------------------------------------------
(* The turn pipeline on a fresh session *)

\* turns of one run of the pipeline
MaxPipeTurns == 3

\* add_message_with_analysis for the next turn; the texts processed are noted
Pipe_Turn(user_message, priya_response) ==
    /\ Len(hist.texts) < MaxPipeTurns
    /\ TurnEffect(user_message, priya_response)
    /\ hist' = [hist EXCEPT !.turn = @ + 1, !.texts = Append(@, user_message)]

\* a session just started: no fact, no turn
InitPipeline ==
    /\ InitMemory
    /\ TheSession \in DOMAIN conversation_sessions

NextPipeline ==
    \E user_message \in UserTexts : \E priya_response \in Replies :
        Pipe_Turn(user_message, priya_response)

SpecPipeline == InitPipeline /\ [][NextPipeline]_vars

-----------------------------------------------------------------------------
(* Claims about the turn pipeline, checked under SpecPipeline *)

\* C17: after turn 1 "I love guitar" and turn 2 "I hate guitar now" have gone
\* through the pipeline (extract, then reconcile each candidate), the
\* preference fact holds its turn-1 value and its contradiction log holds
\* exactly one entry.
C17_SecondStatementIsOnlyLogged ==
    hist.texts = <<"I love guitar", "I hate guitar now">> =>
        /\ PreferenceKey \in DOMAIN user_facts
        /\ user_facts[PreferenceKey].value = "guitar"
        /\ user_facts[PreferenceKey].confirmation_count = 1
        /\ Len(user_facts[PreferenceKey].contradictions) = 1

\* C18: after the single turn "My name is Alex and I love guitar." in a fresh
\* session, the store holds an identity fact (key name, value Alex, confidence
\* 0.95, priority critical) and a preference fact (key preference, value
\* guitar, confidence 0.85, priority high).
C18_BothFactsOfOneTurnAreCreated ==
    hist.texts = <<"My name is Alex and I love guitar.">> =>
        /\ NameKey \in DOMAIN user_facts
        /\ user_facts[NameKey].value = "Alex"
        /\ user_facts[NameKey].confidence = Pct(95)
        /\ user_facts[NameKey].priority = "critical"
        /\ PreferenceKey \in DOMAIN user_facts
        /\ user_facts[PreferenceKey].value = "guitar"
        /\ user_facts[PreferenceKey].confidence = Pct(85)
        /\ user_facts[PreferenceKey].priority = "high"

-----------------------------------------------------------------------------
(* The essence block over a store of many facts *)

\* facts stored in one session before the synthesis
MaxEssenceFacts == 11

\* store_user_fact_with_confidence for the next new fact of the session: the
\* name first, then preferences and personal details; each fact is a little
\* more confident than the one before, all of them above the floor of 0.7
Ess_Store(priority) ==
    LET i == Cardinality(FactsOf(user_facts, TheSession)) + 1
        key == IF i = 1 THEN <<TheSession, "identity", "name">>
               ELSE <<TheSession,
                      IF i % 2 = 0 THEN "preference" ELSE "personal_info",
                      "k" \o IntToStr(i)>>
    IN  /\ i <= MaxEssenceFacts
        /\ user_facts' = StoreFact(user_facts, key, "v" \o IntToStr(i),
                                   Pct(70) + i, priority, now)
        /\ lastOp' = [op |-> "reconcile", key |-> key, session |-> TheSession,
                      outcome |-> FactOutcome(user_facts, key, "v" \o IntToStr(i),
                                              Pct(70) + i)]
        /\ UNCHANGED <<now, bridgeVars, storeVars>>

NextEssence ==
    \/ \E priority \in {"critical", "high"} : Ess_Store(priority)
    \/ Mem_Synthesize

SpecEssence == InitPipeline /\ [][NextEssence]_vars

\* C26: when more than 10 facts are eligible for the essence (priority
\* critical or high, confidence above 0.7), the 10 retained are taken critical
\* before high and, within one priority, higher confidence first: no critical
\* fact is dropped while a high-priority fact is kept.
C26_CriticalFactsAreRetainedFirst ==
    lastOp.op = "synthesize" =>
        LET selected == lastOp.assembled.selected
            kept == {selected[n] : n \in 1..Len(selected)}
            eligible == {k \in FactsOf(user_facts, TheSession) :
                            IsEssenceFact(user_facts[k])}
        IN  Cardinality(eligible) > 10 =>
                /\ Cardinality(kept) = 10
                /\ \A d \in eligible \ kept : \A k \in kept :
                      /\ ~(user_facts[d].priority = "critical"
                             /\ user_facts[k].priority = "high")
                      /\ user_facts[d].priority = user_facts[k].priority
                            => user_facts[k].confidence >= user_facts[d].confidence

-----------------------------------------------------------------------------
(* Claims about the bridge of niya_bridge_with_memory.py *)

\* C1: with reset threshold 4, while every external call has succeeded within
\* its deadline and the instance has stayed younger than the maximum age, the
\* turns at which the instance was replaced are exactly the multiples of 4 among
\* the turns dispatched so far (none in turns 1 to 3, turn 4, turn 8, ...).
C1_ReplacementEveryFourthTurn ==
    hist.clean =>
        hist.resets = {n \in 1..hist.turn : n % max_messages_before_reset = 0}

\* a clean run of ten answered turns, the instance replaced at turns 4 and 8
C1_Witness ==
    /\ hist.clean /\ AllIdle
    /\ hist.turn = 10 /\ hist.reply = "agent"
    /\ hist.resets = {4, 8}
    /\ Len(messages) = 10

\* C7: two turns of one session are never in progress at the same time, and
\* no turn waits on an instance that another request has deleted meanwhile.
C7_TurnsOfASessionAreSerialized ==
    /\ \A t, u \in Threads :
          (t # u /\ pc[t] = "waiting" /\ pc[u] = "waiting")
              => local[t].session_id # local[u].session_id
    /\ \A t \in Threads :
          (pc[t] = "waiting" /\ hist.faults = 0)
              => local[t].dispatched \in letta_agents

\* C10: within a session every persisted turn has a sequence number strictly
\* greater than those of the turns persisted before it.
C10_SequenceNumbersIncrease ==
    \A i, j \in 1..Len(messages) :
        (i < j /\ messages[i].session_id = messages[j].session_id)
            => messages[i].message_num < messages[j].message_num

-----------------------------------------------------------------------------
(* Claims about failures in the bridge of niya_bridge_with_memory.py *)

\* the last two turns of the run both ended in a failed call to the instance
\* (their ledger rows carry the fallback reply) and every turn has its row
LastTwoCallsFailed ==
    /\ Len(messages) >= 2
    /\ messages[Len(messages)].fallback
    /\ messages[Len(messages) - 1].fallback

\* C14: with failure threshold 2, when the calls to the instance keep failing,
\* the consecutive-failure count stands at 2 or more after the 2nd failure (it
\* returns to 0 only after a successful call) and the turn that follows the 2nd
\* failure replaces the instance before it is dispatched.
C14_ResetFollowsSecondFailure ==
    /\ (AllIdle /\ pc[Main] = "serving" /\ Len(messages) = hist.turn
            /\ LastTwoCallsFailed)
          => consecutive_failures >= max_consecutive_failures
    /\ \A t \in Threads :
          (pc[t] = "waiting" /\ Len(messages) = hist.turn - 1 /\ LastTwoCallsFailed)
              => local[t].turn \in hist.resets

\* C15: when the dispatched call runs out of its deadline or returns an error,
\* the consecutive-failure count goes up by one and the turn is answered with
\* the fixed fallback reply (so that the next turn replaces the instance).
C15_FailedCallIsCounted ==
    [][\A t \in Threads :
          (\E outcome \in {"timeout", "error"} : WM_Finish(t, outcome, "none"))
              => /\ consecutive_failures' = consecutive_failures + 1
                 /\ hist'.reply = "fallback"]_vars

-----------------------------------------------------------------------------
(* Claims about the replacement condition of niya_bridge_with_memory.py *)

\* C21: the replacement condition is evaluated before every dispatch, so the
\* instance a turn is dispatched to has, at that time, served fewer than 4
\* turns, a consecutive-failure count below 2 and an age below 120 seconds
\* (an instance exactly 120 seconds old is replaced first).
C21_NoDispatchToAnExpiredInstance ==
    \A t \in Threads :
        pc[t] = "waiting" =>
            /\ hist.served - 1 < max_messages_before_reset
            /\ consecutive_failures < max_consecutive_failures
            /\ now - hist.born < MaxAgentAge

\* C22: every replacement of the instance (scheduled, forced after a timeout
\* or an error, or asked for through /reset) leaves the turn counter at 0, the
\* consecutive-failure count at 0 and the recorded creation time equal to the
\* time of the replacement.
C22_ReplacementResetsTheCounters ==
    [][(agent_id # NoAgent /\ agent_id' # agent_id)
          => /\ message_count' = 0
             /\ consecutive_failures' = 0
             /\ last_reset_time' = now]_vars

-----------------------------------------------------------------------------
(* Claims about the bridge of niya_bridge_memory_optimized.py *)

\* C5: a turn whose call to the instance ran out of its deadline is answered
\* after that one deadline wait; no second deadline wait is begun for it.
C5_OneDeadlineWaitPerTurn ==
    \A t \in Threads : local[t].timed_out => local[t].waits <= 1

\* C6: whatever the agent service and the store do, the reply returned for a
\* turn is never empty.
C6_ReplyIsNeverEmpty == hist.reply # "empty"

\* C8: when a worker abandoned after its deadline completes and the instance
\* it was sent to has been replaced since, no reply-side effect is applied:
\* ledger, session counters, facts, health snapshots and turn counter stay.
C8_LateReplyIsDiscarded ==
    [][\A w \in late :
          (w \notin late' /\ w.agent # agent_id)
              => /\ messages' = messages
                 /\ conversation_sessions' = conversation_sessions
                 /\ user_facts' = user_facts
                 /\ memory_health' = memory_health
                 /\ message_count' = message_count]_vars

\* C9: at most one instance created by the bridge is alive (un-released) on
\* the agent service at any time, on every reset path; no release fails here.
C9_AtMostOneLiveInstance == Cardinality(letta_agents) <= 1

-----------------------------------------------------------------------------
(* Claims about storage and consolidation in niya_bridge_memory_optimized.py *)

\* C16: when persisting a fact or the turn record fails during a turn that the
\* instance answered, the turn is not aborted: if the turn ends with that step,
\* the caller receives the agent's reply, not a fallback.
C16_StorageFailureKeepsTheReply ==
    [][\A t \in Threads :
          (/\ \E refs \in MemoryReferences(user_facts, current_session_id) :
                 \E fault \in {"none", "store"} : Chat_Reply(t, "ok", fault, refs)
           /\ messages' = messages
           /\ pc'[t] = "idle")
              => hist'.reply = "agent"]_vars

\* C19: every automatic replacement of the instance is preceded, in the same
\* turn, by the consolidation step (the remediation pass on the session's
\* facts), the blocks of the new instance being synthesized after it.
C19_ConsolidationPrecedesReplacement == hist.resets \subseteq hist.consolidated

\* C27: the recent-context block is computed from the 5 most recently appended
\* turns of the session, also when the history spans replacements of the
\* instance: the rows the SELECT of build_conversation_context returns
\* (whichever it picks among rows that tie) are the last 5 rows appended.
C27_ContextReadsTheLatestTurns ==
    LET mine == {i \in DOMAIN messages :
                    messages[i].session_id = current_session_id}
        latest == {i \in mine : Cardinality({j \in mine : j > i}) < 5}
    IN  \E S \in LatestRows(messages, current_session_id, 5) : S = latest

-----------------------------------------------------------------------------
(* The memory-optimized bridge behind its server: serve(app, threads=4) runs
   chat() of the one global bridge on several threads, so a message can arrive
   while the reply to another is awaited *)

\* turns one run of the bridge serving overlapping requests may take
MaxOptConcTurns == 6
\* failures of the agent service or of the store in one such run
MaxOptConcFaults == 1

NextOptConc ==
    \/ \E t \in Threads : \E kind \in MessageKinds : \E fault \in {"none", "create"} :
            /\ hist.turn < MaxOptConcTurns
            \* the threads of the pool are alike: the first idle one serves
            /\ \A u \in Threads : pc[u] = "idle" => t <= u
            /\ Chat_Begin(t, kind, fault)
            /\ hist'.faults <= MaxOptConcFaults
    \/ \E t \in Threads : \E outcome \in SendOutcomes :
       \E fault \in {"none", "create", "store"} :
       \E refs \in MemoryReferences(user_facts, current_session_id) :
            /\ Chat_Reply(t, outcome, fault, refs)
            /\ hist'.faults <= MaxOptConcFaults
    \/ \E w \in late : \E outcome \in {"ok", "error"} :
       \E refs \in MemoryReferences(user_facts, current_session_id) :
            LateComplete(w, outcome, refs)

SpecOptConc == InitOpt /\ [][NextOptConc]_vars

\* C29: in the memory-optimized bridge the health-based reset fires: when chat()
\* replaces a live instance before dispatching although message_count is not a
\* multiple of 4, message_count is a positive multiple of 5 and the overall
\* health of the session is below 0.6 -- and such a turn exists
C29_HealthBranchForcesAnEarlyReset ==
    [][(/\ hist'.turn = hist.turn + 1
        /\ agent_id # NoAgent /\ agent_id' # agent_id
        /\ message_count % 4 # 0)
          => /\ message_count > 0 /\ message_count % 5 = 0
             /\ LET m == health_metrics(CurrentStore, current_session_id, now)
                IN  10 * m.overall_health < 6 * HealthScale
             /\ hist'.turn \in hist'.by_health]_vars

\* a turn was dispatched to an instance created because should_reset_agent
\* returned True through its health branch
C29_Witness ==
    \E t \in Threads :
        /\ pc[t] \in {"wait1", "wait2"}
        /\ local[t].turn \in hist.by_health \cap hist.resets
        /\ message_count = 0

\* served one message after the other, the bridge never takes the health
\* branch: the count rule replaces the instance before the count can reach 5
HealthBranchIsDeadForOneClient == hist.by_health = {} /\ message_count <= 4

-----------------------------------------------------------------------------
(* Claims about the reset counter of the memory-optimized bridge serving one
   request at a time, checked under SpecOpt *)

\* the turns answered without error by instance a
AnsweredBy(a) == {p \in hist.answered : p[2] = a}

\* C31: with one request at a time, message_count is the number of turns the
\* current instance has answered and never exceeds reset_frequency (4); a
\* message is never awaiting its reply while the count is 4 (the chat call
\* that finds it at 4 replaces the instance and zeroes it before dispatching),
\* and no instance answers more than 4 turns.
C31_CountNeverExceedsResetFrequency ==
    /\ message_count <= reset_frequency
    /\ message_count = Cardinality(AnsweredBy(agent_id))
    /\ \A t \in Threads : pc[t] \in {"wait1", "wait2"} =>
            /\ message_count < reset_frequency
            /\ local[t].dispatched = agent_id
    /\ \A a \in 1..created : Cardinality(AnsweredBy(a)) <= reset_frequency

\* the fifth message is awaiting its reply from a new instance, the previous
\* one having answered four turns
C31_Witness ==
    \E t \in Threads : \E a \in 1..created :
        /\ pc[t] = "wait1" /\ local[t].turn \in hist.resets
        /\ a # agent_id /\ Cardinality(AnsweredBy(a)) = reset_frequency
        /\ message_count = 0

-----------------------------------------------------------------------------
(* The retention sweep of core/conversation_memory.py.  Here a session row is
   [total_messages, last_activity], last_activity being the UTC second that
   CURRENT_TIMESTAMP wrote *)

\* calls of ConversationMemory in one run
MaxSweepOps == 5
\* the clock of such a run stops here
MaxSweepTime == 108000
\* the clock advances by ten hours between two calls
SweepStep == 36000
DaySeconds == 86400
\* datetime.now() is the local time: the UTC offsets, in seconds, of
\* America/Los_Angeles, UTC and Asia/Kolkata
UtcOffsets == {-28800, 0, 19800}
SweepDays == {0, 1}
SweepTexts == {"hello", "My favorite food is dosa", "I am so happy, I love it"}

\* _extract_insights: a preference when the message holds "favorite", then an
\* emotion for each of the five words it holds
extract_insights(user_msg) ==
    LET words == <<"happy", "sad", "excited", "love", "care">>
        text == Lower(user_msg)
        RECURSIVE Found(_)
        Found(i) == IF i > Len(words) THEN <<>>
                    ELSE (IF Contains(text, words[i])
                          THEN <<[type |-> "emotion", key |-> words[i]]>>
                          ELSE <<>>) \o Found(i + 1)
    IN  (IF Contains(text, "favorite")
         THEN <<[type |-> "preference", key |-> "user_favorite"]>>
         ELSE <<>>) \o Found(1)

InsightsOf == [text \in SweepTexts |-> extract_insights(text)]

\* cleanup_old_sessions: the three DELETEs select the sessions with
\* last_activity < cutoff_date.  The column holds 'YYYY-MM-DD HH:MM:SS', the
\* parameter is bound as 'YYYY-MM-DD HH:MM:SS.ffffff' (without the fraction
\* when the microsecond is 0) and the two are compared as texts: within the
\* cutoff's own second a row is selected when the fraction is there
cleanup_old_sessions(sessions, rows, insights, cutoff, microsecond) ==
    LET old == {s \in DOMAIN sessions :
                    \/ sessions[s].last_activity < cutoff
                    \/ sessions[s].last_activity = cutoff /\ microsecond > 0}
        Kept(r) == r.session_id \notin old
    IN  [sessions |-> [s \in DOMAIN sessions \ old |-> sessions[s]],
         rows |-> SelectSeq(rows, Kept),
         insights |-> SelectSeq(insights, Kept)]

SweepOps == hist.turn

\* the rows of a table that belong to session s
RowsFor(table, s) ==
    LET Of(r) == r.session_id = s IN SelectSeq(table, Of)

\* start_session: the id is made of the current second; the INSERT of an id
\* the table holds already raises sqlite3.IntegrityError (PRIMARY KEY)
Sweep_Start ==
    /\ SweepOps < MaxSweepOps
    /\ IF start_session_raises(conversation_sessions, now)
       THEN /\ UNCHANGED conversation_sessions
            /\ lastOp' = [op |-> "start", key |-> <<>>, session |-> NoSession,
                          outcome |-> "raised"]
       ELSE /\ conversation_sessions' =
                   conversation_sessions @@ (now :> [total_messages |-> 0,
                                                     last_activity |-> now])
            /\ lastOp' = [op |-> "start", key |-> <<>>, session |-> now,
                          outcome |-> ""]
    /\ hist' = [hist EXCEPT !.turn = @ + 1]
    /\ UNCHANGED <<now, user_facts, messages, memory_health,
                   relationship_insights, agent_id, message_count,
                   consecutive_failures, last_reset_time, current_session_id,
                   letta_agents, created, pc, local, late>>

\* add_message(session_id, ...): the row and its insights are inserted whether
\* or not table conversation_sessions holds the session (the foreign key is
\* not enforced); the UPDATE of the counter then changes no row.  The callers
\* pass the id of a started session or, like handle_message, the id their
\* client sent: here the id the next session will get
Sweep_AddMessage(session_id, user_message) ==
    /\ SweepOps < MaxSweepOps
    /\ session_id \in DOMAIN conversation_sessions \cup {now + SweepStep}
    /\ user_message \in SweepTexts
    /\ messages' = Append(messages,
                     [session_id |-> session_id,
                      message_num |-> Len(RowsFor(messages, session_id)) + 1,
                      fallback |-> FALSE])
    /\ conversation_sessions' =
           IF session_id \in DOMAIN conversation_sessions
           THEN [conversation_sessions EXCEPT
                    ![session_id].total_messages = @ + 1,
                    ![session_id].last_activity = now]
           ELSE conversation_sessions
    /\ relationship_insights' =
           relationship_insights \o
               [i \in 1..Len(InsightsOf[user_message]) |->
                   [session_id |-> session_id,
                    insight_type |-> InsightsOf[user_message][i].type,
                    key_phrase |-> InsightsOf[user_message][i].key]]
    /\ lastOp' = [op |-> "add", key |-> <<>>, session |-> session_id,
                  outcome |-> ""]
    /\ hist' = [hist EXCEPT !.turn = @ + 1]
    /\ UNCHANGED <<now, user_facts, memory_health, agent_id, message_count,
                   consecutive_failures, last_reset_time, current_session_id,
                   letta_agents, created, pc, local, late>>

\* cleanup_old_sessions(days_old) on a machine whose local time is `offset`
\* seconds ahead of UTC, called `microsecond` microseconds into the second
Sweep_Cleanup(days_old, offset, microsecond) ==
    /\ SweepOps < MaxSweepOps
    /\ days_old \in SweepDays /\ offset \in UtcOffsets /\ microsecond \in {0, 1}
    /\ LET cutoff_date == now + offset - days_old * DaySeconds
           swept == cleanup_old_sessions(conversation_sessions, messages,
                                         relationship_insights, cutoff_date,
                                         microsecond)
       IN  /\ conversation_sessions' = swept.sessions
           /\ messages' = swept.rows
           /\ relationship_insights' = swept.insights
    /\ lastOp' = [op |-> "sweep", key |-> <<>>, session |-> "", outcome |-> "",
                  days_old |-> days_old, offset |-> offset]
    /\ hist' = [hist EXCEPT !.turn = @ + 1]
    /\ UNCHANGED <<now, user_facts, memory_health, agent_id, message_count,
                   consecutive_failures, last_reset_time, current_session_id,
                   letta_agents, created, pc, local, late>>

Sweep_Tick ==
    /\ now + SweepStep <= MaxSweepTime
    /\ now' = now + SweepStep
    /\ lastOp' = [op |-> "tick", key |-> <<>>, session |-> "", outcome |-> ""]
    /\ UNCHANGED <<user_facts, storeVars, bridgeVars>>

\* after ConversationMemory(): the tables are empty
InitSweep ==
    /\ now = 0
    /\ user_facts = <<>>
    /\ lastOp = NoOp
    /\ agent_id = NoAgent /\ message_count = 0 /\ consecutive_failures = 0
    /\ last_reset_time = 0 /\ current_session_id = NoSession
    /\ letta_agents = {} /\ created = 0
    /\ conversation_sessions = <<>>
    /\ messages = <<>> /\ memory_health = <<>>
    /\ relationship_insights = <<>>
    /\ pc = <<>> /\ local = <<>> /\ late = {}
    /\ hist = InitHist

NextSweep ==
    \/ Sweep_Start
    \/ \E session_id \in DOMAIN conversation_sessions \cup {now + SweepStep} :
       \E user_message \in SweepTexts :
            Sweep_AddMessage(session_id, user_message)
    \/ \E days_old \in SweepDays : \E offset \in UtcOffsets :
       \E microsecond \in {0, 1} :
            Sweep_Cleanup(days_old, offset, microsecond)
    \/ Sweep_Tick

SpecSweep == InitSweep /\ [][NextSweep]_vars

\* C32: after cleanup_old_sessions(d), every session whose last activity is
\* older than d days is gone together with all of its messages and insights,
\* no remaining message or insight row references a deleted session, and the
\* sessions active within the last d days keep all their rows unchanged.  (A
\* session last active exactly d days before, to the second, may go or stay.)
C32_SweepRemovesExactlyTheOldSessions ==
    [][lastOp'.op = "sweep" =>
        LET limit == now - lastOp'.days_old * DaySeconds
            gone == DOMAIN conversation_sessions \ DOMAIN conversation_sessions'
        IN  /\ \A s \in DOMAIN conversation_sessions :
                 /\ conversation_sessions[s].last_activity < limit => s \in gone
                 /\ conversation_sessions[s].last_activity > limit =>
                        /\ s \notin gone
                        /\ conversation_sessions'[s] = conversation_sessions[s]
                        /\ RowsFor(messages', s) = RowsFor(messages, s)
                        /\ RowsFor(relationship_insights', s)
                              = RowsFor(relationship_insights, s)
            /\ \A s \in gone :
                 /\ RowsFor(messages', s) = <<>>
                 /\ RowsFor(relationship_insights', s) = <<>>]_vars

\* the same property for the calls made on a machine whose local time is UTC
SweepIsExactUnderUtc ==
    [][(lastOp'.op = "sweep" /\ lastOp'.offset = 0) =>
        LET limit == now - lastOp'.days_old * DaySeconds
            gone == DOMAIN conversation_sessions \ DOMAIN conversation_sessions'
        IN  /\ \A s \in DOMAIN conversation_sessions :
                 /\ conversation_sessions[s].last_activity < limit => s \in gone
                 /\ conversation_sessions[s].last_activity > limit =>
                        /\ s \notin gone
                        /\ conversation_sessions'[s] = conversation_sessions[s]
                        /\ RowsFor(messages', s) = RowsFor(messages, s)
                        /\ RowsFor(relationship_insights', s)
                              = RowsFor(relationship_insights, s)
            /\ \A s \in gone :
                 /\ RowsFor(messages', s) = <<>>
                 /\ RowsFor(relationship_insights', s) = <<>>]_vars

\* C35: for every session, the stored turn count (total_messages) equals the
\* number of turn rows persisted for that session, after any sequence of
\* ledger appends.
C35_TurnCountEqualsTurnRows ==
    \A s \in DOMAIN conversation_sessions :
        conversation_sessions[s].total_messages = Len(RowsFor(messages, s))

\* the stored turn count never exceeds the number of turn rows
TurnCountAtMostTurnRows ==
    \A s \in DOMAIN conversation_sessions :
        conversation_sessions[s].total_messages <= Len(RowsFor(messages, s))

\* C36: start_session always succeeds and returns a session id different from
\* the id of every existing session, also when two sessions are started within
\* the same clock second.
C36_StartSessionGivesAFreshId ==
    [][lastOp'.op = "start" =>
          /\ lastOp'.outcome # "raised"
          /\ lastOp'.session \notin DOMAIN conversation_sessions
          /\ lastOp'.session \in DOMAIN conversation_sessions']_vars

\* a call of start_session that returns gives an id no session had
ReturnedSessionIdIsFresh ==
    [][(lastOp'.op = "start" /\ lastOp'.outcome # "raised") =>
          /\ lastOp'.session \notin DOMAIN conversation_sessions
          /\ lastOp'.session \in DOMAIN conversation_sessions']_vars

-----------------------------------------------------------------------------
(* Claims about one call of add_message_with_analysis, checked under
   SpecPipeline *)

\* C30: add_message_with_analysis applied to a turn whose text yields at least
\* one candidate fact completes: the turn's row is committed to the ledger, the
\* session's turn count is incremented and every candidate is reconciled into
\* the Fact Store (the connection holding the turn's write transaction does
\* not block the reconciler's writes).
C30_TurnWithCandidatesIsCommitted ==
    [][\A user_message \in UserTexts :
        LET found == AnalysisOf(user_message,
                                CHOOSE r \in Replies : TRUE).high_value_info
        IN  (hist'.texts = Append(hist.texts, user_message) /\ Len(found) > 0)
               => /\ lastOp'.outcome = "stored"
                  /\ Len(messages') = Len(messages) + 1
                  /\ conversation_sessions'[TheSession].total_messages
                        = conversation_sessions[TheSession].total_messages + 1
                  /\ \A i \in 1..Len(found) :
                        <<TheSession, found[i].fact_type, found[i].key_phrase>>
                            \in DOMAIN user_facts']_vars

PipelineStoresNoFact == user_facts = <<>>

-----------------------------------------------------------------------------
(* Claims about the Synthesizer and the Health Monitor, checked under SpecMemory *)

SpecializedLabels ==
    <<"user_essence", "relationship_state", "conversation_context",
      "emotional_context">>

\* the blocks of the synthesis just made that carry the label
BlocksLabelled(label) ==
    {i \in 1..Len(lastOp.blocks) : lastOp.blocks[i].label = label}

\* C11: each specialized block returned by the synthesis is at most as long as
\* its configured maximum (essence 200, relationship state 150, recent context
\* 150, emotional context 100) and is the assembled text cut at that length:
\* the cutoff is applied last.
C11_BlocksFitTheirMaximum ==
    lastOp.op = "synthesize" =>
        \A i \in 2..Len(lastOp.blocks) :
            LET b == lastOp.blocks[i]
                full == lastOp.assembled[b.label]
                max == max_memory_block_length[b.label]
            IN  /\ Len(b.value) <= max
                /\ b.value = SubSeq(full, 1, Len(b.value))
                /\ Len(b.value) = Min(Len(full), max)

\* an essence longer than 200 characters was assembled and cut to 200
C11_Witness ==
    /\ lastOp.op = "synthesize"
    /\ Len(lastOp.assembled.user_essence) > max_memory_block_length.user_essence
    /\ \E i \in BlocksLabelled("user_essence") :
          Len(lastOp.blocks[i].value) = max_memory_block_length.user_essence

\* C12: after any sequence of reconcile and remediation operations, a fact
\* whose confidence is at or below 0.7 is not among the facts the synthesis
\* renders, and its value occurs in no block (unless a rendered fact has the
\* same value).
C12_FactsAtTheFloorAreNotSurfaced ==
    lastOp.op = "synthesize" =>
        /\ \A k \in lastOp.assembled.rendered : user_facts[k].confidence > Pct(70)
        /\ \A k \in FactsOf(user_facts, TheSession) :
              ( /\ user_facts[k].confidence <= Pct(70)
                /\ \A r \in lastOp.assembled.rendered :
                       user_facts[r].value # user_facts[k].value )
              => \A i \in 1..Len(lastOp.blocks) :
                     ~Contains(lastOp.blocks[i].value, user_facts[k].value)

\* a high-priority fact reconciled down to 0.65 is left out of an essence
\* block that renders another fact
C12_Witness ==
    /\ lastOp.op = "synthesize"
    /\ BlocksLabelled("user_essence") # {}
    /\ \E k \in FactsOf(user_facts, TheSession) :
          /\ user_facts[k].priority = "high"
          /\ user_facts[k].confirmation_count = 2
          /\ user_facts[k].confidence = Pct(65)
          /\ k \notin lastOp.assembled.rendered

\* C13: for an existing session, whatever the Fact Store and the ledger hold,
\* the assessment returns four sub-scores in [0,1] and an overall score that
\* is their arithmetic mean, hence in [0,1]; the snapshot stored is that result.
C13_HealthScoresAreInRange ==
    (lastOp.op = "assess" /\ lastOp.outcome # "raised") =>
        LET m == lastOp.metrics IN
        /\ m.retention_score \in 0..Scale
        /\ m.consistency_score \in 0..Scale
        /\ m.learning_velocity \in 0..Scale
        /\ m.context_relevance \in 0..Scale
        /\ m.overall_health = m.retention_score + m.consistency_score
                                + m.learning_velocity + m.context_relevance
        /\ m.overall_health \in 0..HealthScale
        /\ memory_health[Len(memory_health)] = m

\* an assessment made while the session holds more recent facts than turns
C13_Witness ==
    /\ lastOp.op = "assess" /\ lastOp.outcome # "raised"
    /\ lastOp.metrics.learning_velocity = Scale
    /\ Cardinality(FactsOf(user_facts, TheSession))
           > Max(conversation_sessions[TheSession].total_messages, 1)

\* C20: the synthesis returns the fixed persona block first, followed only by
\* specialized blocks whose text is not empty, in the order essence,
\* relationship state, recent context, emotional context.
C20_PersonaFirstThenNonEmptyBlocks ==
    lastOp.op = "synthesize" =>
        LET b == lastOp.blocks IN
        /\ Len(b) >= 1
        /\ b[1] = [label |-> "persona", value |-> persona_text]
        /\ \A i \in 2..Len(b) :
              /\ \E n \in 1..Len(SpecializedLabels) : b[i].label = SpecializedLabels[n]
              /\ b[i].value # ""
              /\ lastOp.assembled[b[i].label] # ""
        /\ \A i, j \in 2..Len(b) :
              i < j => \E m, n \in 1..Len(SpecializedLabels) :
                          /\ m < n
                          /\ b[i].label = SpecializedLabels[m]
                          /\ b[j].label = SpecializedLabels[n]

\* the session holds facts and a turn, yet the essence and the emotional
\* context are empty and left out: persona, relationship state, recent context
C20_Witness ==
    /\ lastOp.op = "synthesize"
    /\ FactsOf(user_facts, TheSession) # {}
    /\ lastOp.assembled.user_essence = ""
    /\ lastOp.assembled.emotional_context = ""
    /\ Len(lastOp.blocks) = 3
    /\ lastOp.blocks[2].label = "relationship_state"
    /\ lastOp.blocks[3].label = "conversation_context"

\* C23: an assessment of an existing session runs the remediation pass exactly
\* when the overall score it computed is below 0.6; when the score is 0.6 or
\* more the only change it makes is the appended snapshot, and every fact
\* (existence, value, confidence, confirmation count) is as before.
C23_RemediationOnlyBelowThreshold ==
    [][(Mem_Assess /\ TheSession \in DOMAIN conversation_sessions) =>
          LET m == health_metrics(CurrentStore, TheSession, now) IN
          /\ memory_health' = Append(memory_health, m)
          /\ messages' = messages
          /\ conversation_sessions' = conversation_sessions
          /\ user_facts' = IF 10 * m.overall_health < 6 * HealthScale
                           THEN trigger_memory_optimization(user_facts, TheSession)
                           ELSE user_facts]_vars

\* an assessment scored 0.6 or more and left in the store a fact that the
\* remediation pass would have deleted
C23_Witness ==
    /\ lastOp.op = "assess" /\ lastOp.outcome # "raised"
    /\ 10 * lastOp.metrics.overall_health >= 6 * HealthScale
    /\ \E k \in FactsOf(user_facts, TheSession) : IsUncertain(user_facts[k])
    /\ trigger_memory_optimization(user_facts, TheSession) # user_facts

\* C28: the retention score of an assessment is min(1, R / 30), R being the
\* number of fact references in the session's last 10 replies; the denominator
\* is the fixed 10 x 3 also when the session has fewer than 10 replies or none.
C28_RetentionIsReferencesOverThirty ==
    (lastOp.op = "assess" /\ lastOp.outcome # "raised") =>
        lastOp.metrics.retention_score =
            Min((SumRefs(messages, RecentRows(messages, TheSession)) * Scale) \div 30,
                Scale)

-----------------------------------------------------------------------------
(* Claims about the counters and the confidences of the Fact Store *)

\* C24: the confirmation count of a stored fact is at least 1, goes up by
\* exactly 1 on a reconcile that reinforces or supersedes the fact, is left as
\* it is by a reconcile that logs a contradiction and by the remediation pass,
\* and never goes down.
C24_ConfirmationCountOnlyGrows ==
    [][/\ \A key \in DOMAIN user_facts' : user_facts'[key].confirmation_count >= 1
       /\ \A key \in DOMAIN user_facts \cap DOMAIN user_facts' :
             LET old == user_facts[key].confirmation_count
                 new == user_facts'[key].confirmation_count
             IN  /\ new >= old
                 /\ (Reconciled(key, "reinforced") \/ Reconciled(key, "superseded"))
                        => new = old + 1
                 /\ Reconciled(key, "contradiction-logged") => new = old
                 /\ lastOp'.op \in {"cleanup", "reinforce", "remediate"}
                        => new = old]_vars

\* the remediation pass has run on a fact confirmed three times that carries a
\* logged contradiction
C24_Witness ==
    /\ lastOp.op = "remediate"
    /\ \E key \in DOMAIN user_facts :
          /\ lastOp.session = key[1]
          /\ user_facts[key].confirmation_count = 3
          /\ Len(user_facts[key].contradictions) = 1

\* C25: the stored confidence of every fact stays within [0,1] under any
\* interleaving of reconcile calls (candidate confidence in [0,1], all four
\* outcomes) and remediation passes: the bonus of a reinforcement and the
\* boost of the remediation pass are both capped at 1.0.
C25_ConfidenceStaysInRange ==
    \A key \in DOMAIN user_facts : user_facts[key].confidence \in 0..Scale

\* a fact reinforced twice up to confidence 1.0, which the boost of the
\* remediation pass has then left at 1.0
C25_Witness ==
    /\ lastOp.op \in {"reinforce", "remediate"}
    /\ \E key \in DOMAIN user_facts :
          /\ lastOp.session = key[1]
          /\ IsValidated(user_facts[key])
          /\ user_facts[key].confidence = Scale

\* C33: a reconcile that takes the reinforcement branch leaves the fact's
\* stored value and its contradiction log as they were, even when the
\* candidate's value differs from the stored one; and in any step a fact's
\* stored value changes only when the step is a reconcile of that fact that
\* supersedes (a contradictory candidate whose confidence is more than 0.2
\* above the stored one), the new value being the candidate's.
C33_ValueChangesOnlyBySupersede ==
    [][\A key \in DOMAIN user_facts \cap DOMAIN user_facts' :
          /\ Reconciled(key, "reinforced") =>
                /\ user_facts'[key].value = user_facts[key].value
                /\ user_facts'[key].contradictions = user_facts[key].contradictions
          /\ user_facts'[key].value # user_facts[key].value =>
                /\ Reconciled(key, "superseded")
                /\ <<user_facts[key].value, lastOp'.value>> \in ContradictingValues
                /\ lastOp'.value = user_facts'[key].value
                /\ user_facts'[key].confidence > user_facts[key].confidence + Pct(20)]_vars

\* a fact just reinforced by a candidate whose value is not the stored one
C33_Witness ==
    /\ lastOp.op = "reconcile" /\ lastOp.outcome = "reinforced"
    /\ lastOp.key \in DOMAIN user_facts
    /\ lastOp.value # user_facts[lastOp.key].value
    /\ user_facts[lastOp.key].confirmation_count > 1

-----------------------------------------------------------------------------
(* The bridge of core/niya_bridge_with_memory.py with a client that holds
   several conversations: each request names the session it belongs to *)

\* turns one run of the bridge may take with the switching client
MaxSwitchTurns == 4
\* the id of a conversation the client holds that this run did not start
ForeignSession == MaxTime + 1
\* the session ids the switching client sends
SwitchSessions == DOMAIN conversation_sessions \cup {ForeignSession}

NextSwitch ==
    \/ \E fault \in {"none", "create"} : WM_Initialize(fault, "switches-session")
    \/ \E sid_in \in SwitchSessions : \E fault \in CreateFaults :
            hist.turn < MaxSwitchTurns /\ AllIdle
            /\ WM_Begin(FirstThread, sid_in, fault)
    \/ \E t \in Threads : \E outcome \in {"ok", "timeout", "error"} :
       \E fault \in {"none", "delete", "create", "store"} :
            WM_Finish(t, outcome, fault)
    \/ \E fault \in CreateFaults : AllIdle /\ WM_Reset(fault)
    \/ \E d \in TickSteps : AllIdle /\ WM_Tick(d)

SpecSwitch == InitBridge /\ [][NextSwitch]_vars

\* C37: a turn of session S is only dispatched to an instance whose context
\* was synthesized from session S; a request naming another session than the
\* current one is not answered by the instance built for the previous session.
C37_TurnGoesToAnInstanceOfItsSession ==
    \A t \in Threads :
        pc[t] = "waiting" => local[t].session_id = hist.context

\* a turn that replaced the instance is dispatched to one built for its session
ReplacingTurnGoesToAnInstanceOfItsSession ==
    \A t \in Threads :
        (pc[t] = "waiting" /\ local[t].turn \in hist.resets) =>
            local[t].session_id = hist.context

\* C38: the recorded live agent id never names an instance the bridge has
\* released: when creating the replacement fails after the old instance was
\* deleted, no later turn is dispatched to the deleted instance.
C38_AgentIdNamesALiveInstance ==
    /\ agent_id # NoAgent => agent_id \in letta_agents
    /\ \A t \in Threads :
           pc[t] = "waiting" => local[t].dispatched \in letta_agents

\* no turn is dispatched to an instance the bridge has deleted
NoDispatchToADeletedInstance ==
    \A t \in Threads : pc[t] = "waiting" => local[t].dispatched \in letta_agents

\* the recorded id names a live instance as long as no creation has failed
AgentIdIsLiveWithoutFailure ==
    hist.clean => (agent_id # NoAgent => agent_id \in letta_agents)

=============================================================================
